---- MODULE Spec2Model ----
(***************************************************************************)
(* Model of the fastly-object-storage client wrapper.                      *)
(*                                                                         *)
(* Every public operation is an async function.  It runs synchronously up  *)
(* to its `await this.client.send(command)`, and its continuation runs     *)
(* when the backend answers.  A call is therefore two (or three) atomic    *)
(* steps: the action named after the method is the part before the first   *)
(* await, the ...Settle action is the continuation.  Callers may issue     *)
(* calls while others are in flight.                                       *)
(*                                                                         *)
(* The backend (the wrapped S3 client) is the environment: it answers a    *)
(* request with a response or an error of its choice.  Upload ids it       *)
(* issues are opaque tokens and fresh, as in the S3 protocol.              *)
(***************************************************************************)
EXTENDS Integers, Sequences, FiniteSets, Bags, TLC

\* ------------------------------------------------------------------ bounds
MaxInFlight == 2       \* calls awaiting the backend at the same time
MaxNameLen == 4        \* length of the names enumerated character by character
MaxObjects == 4        \* objects in the bucket a caller lists

\* ------------------------------------------------------------------ values
\* JavaScript `undefined` for an optional number (statusCode, httpStatusCode)
NoStatus == 0
\* JavaScript `undefined` / '' for an optional string
NoStr == ""
\* JavaScript `undefined` for an optional upload id
NoId == NoStr

\* (bucket, key) pairs the caller uses
Targets == {<<"b1", "k1">>, <<"b2", "k2">>}
\* the upload ids (opaque tokens) the backend issues and the caller names
UploadIds == {"u1", "u2"}
\* (part number, payload) pairs the caller uploads
PartInputs == {<<1, <<>>>>, <<2, <<7>>>>}
ETags == {"e1"}
PartLists == {<<>>, <<[partNumber |-> 1, etag |-> "e1"]>>}

\* Errors the underlying client rejects with: a service error carries
\* $metadata.httpStatusCode, a network error carries no $metadata.
NotFoundError == [name |-> "NoSuchUpload", message |-> "gone", httpStatusCode |-> 404]
InternalError == [name |-> "InternalError", message |-> "boom", httpStatusCode |-> 500]
TimeoutError == [name |-> "TimeoutError", message |-> "timeout"]
S3Errors == {NotFoundError, InternalError, TimeoutError}

\* ------------------------------------------------- FastlyStorageError
\* new FastlyStorageError(message, code, {statusCode, context, cause}).
\* The object has name 'FastlyStorageError' and no $metadata property.
\* NoError stands for an absent cause.
NoError == [name |-> NoStr]
FastlyStorageError(message, code, statusCode, context, cause) ==
    [name |-> "FastlyStorageError", message |-> message, code |-> code,
     statusCode |-> statusCode, context |-> context, cause |-> cause]

\* s3Error.$metadata?.httpStatusCode of any thrown value
MetaStatus(error) ==
    IF "httpStatusCode" \in DOMAIN error THEN error.httpStatusCode ELSE NoStatus

\* s3Error.$metadata?.requestId
MetaRequestId(error) ==
    IF "requestId" \in DOMAIN error THEN error.requestId ELSE NoStr

\* { ...context, requestId }
Spread(context, requestId) ==
    [f \in DOMAIN context \cup {"requestId"} |->
        IF f = "requestId" THEN requestId ELSE context[f]]

\* s3Error.message || 'S3 operation failed' (a thrown value may lack the property)
MessageOf(error) ==
    IF "message" \in DOMAIN error /\ error.message # NoStr
    THEN error.message ELSE "S3 operation failed"

\* variant: the code is the error's name whatever the status
fromS3ErrorNamed(error, context) ==
    FastlyStorageError(
        MessageOf(error),
        IF error.name # NoStr THEN error.name ELSE "UNKNOWN_ERROR",
        MetaStatus(error), Spread(context, MetaRequestId(error)), error)

\* FastlyStorageError.fromS3Error
fromS3Error(error, context) ==
    FastlyStorageError(
        MessageOf(error),
        IF MetaStatus(error) = 404 THEN "NOT_FOUND"
        ELSE IF error.name # NoStr THEN error.name ELSE "UNKNOWN_ERROR",
        MetaStatus(error), Spread(context, MetaRequestId(error)), error)

NoCommand == [command |-> NoStr]

\* FastlyStorageError.isRetryable: `!this.statusCode` is tested first
isRetryable(error) ==
    IF error.statusCode = NoStatus THEN FALSE
    ELSE IF error.statusCode >= 500 THEN TRUE
    ELSE IF error.statusCode = 429 THEN TRUE
    ELSE IF error.statusCode = 408 THEN TRUE
    ELSE IF error.code = "ECONNRESET" \/ error.code = "ETIMEDOUT" THEN TRUE
    ELSE FALSE

\* ---------------------------------------------------------------- backend
\* What client.send settles with.
\*   Body      GetObject: whether a payload stream came, the chunks it will
\*             deliver, and whether it then ends or emits 'error'
\*   Buckets   ListBuckets: the buckets, each [Name, CreationDate]
NoBody == [present |-> FALSE, chunks |-> <<>>, ends |-> TRUE]
\*   Contents, IsTruncated, NextContinuationToken   ListObjectsV2: one page
\*   Url       what getSignedUrl resolves with
NoUrl == [method |-> NoStr]
NoResponse ==
    [ok |-> FALSE, error |-> NoError, UploadId |-> NoId, ETag |-> NoStr,
     Body |-> NoBody, Buckets |-> <<>>,
     Contents |-> <<>>, IsTruncated |-> FALSE, NextContinuationToken |-> NoStr,
     Url |-> NoUrl]
ErrorResponses(errors) == {[NoResponse EXCEPT !.error = e] : e \in errors}
OkResponse(uploadId, etag) == [NoResponse EXCEPT !.ok = TRUE, !.UploadId = uploadId, !.ETag = etag]

\* ------------------------------------------------------------------ state
VARIABLES
    uploads,    \* MultipartOperations.uploads: upload id -> [uploadId, bucket, key]
    inflight,   \* the calls awaiting the backend, a bag
    last,       \* the call that settled most recently, as its caller sees it
    issued,     \* the upload ids the backend has issued
    finished,   \* upload id -> the complete or abort that resolved for it last
    env,        \* process.env: the FASTLY_* variables
    client,     \* the FastlyStorageClient: how construction went, and its fields
    objects,    \* the backend's store: <<bucket, key>> -> what it keeps there
    caller      \* the calling program: its inputs and what it has noted so far

vars == <<uploads, inflight, last, issued, finished, env, client, objects, caller>>

\* A call: its arguments, what it captured, what it did and how it settled.
\*   pc        "idle" (no call), the await it stands at, "resolved", "rejected"
\*   tracked   whether uploadId was in the session map when the call was issued
\*   late      whether a complete or abort had resolved for uploadId when the
\*             call was issued
\*   sends     commands handed to client.send so far
\*   command   the last command handed to client.send
\*   logged    logger.error entries emitted so far
\*   signal    options.abortSignal: "none" when not given, "live", "aborted"
\*   seen      listObjects: the keys of the pages this pagination received before
\*   again     presigned URLs: whether the caller held a URL it had received for
\*             the same inputs when the call was issued
\*   console   logger calls: the lines the call wrote to the console
NoResult ==
    [uploadId |-> NoId, etag |-> NoStr, body |-> <<>>, name |-> NoStr, creationDate |-> 0,
     error |-> NoError, retryable |-> FALSE,
     contents |-> <<>>, isTruncated |-> FALSE, nextContinuationToken |-> NoStr,
     url |-> NoUrl]
Idle ==
    [op |-> NoStr, pc |-> "idle", uploadId |-> NoId, bucket |-> NoStr, key |-> NoStr,
     partNumber |-> 0, data |-> <<>>, parts |-> <<>>, tracked |-> FALSE, late |-> FALSE,
     sourceBucket |-> NoStr, sourceKey |-> NoStr, signal |-> "none", expiresIn |-> 0,
     maxKeys |-> <<>>, continuationToken |-> NoStr, seen |-> <<>>, again |-> FALSE,
     sends |-> 0, command |-> NoCommand, logged |-> <<>>, console |-> <<>>,
     response |-> NoResponse, result |-> NoResult, error |-> NoError]

\* What the calling program holds.
\*   arg         the argument it passes to a pure function
\*   remembered  a presigned URL it received earlier, with the inputs it gave
\*   created     upload id -> the bucket and key it passed to the
\*               createMultipartUpload call that returned the id
NoCaller == [arg |-> <<>>, remembered |-> <<>>, created |-> <<>>]

Command(name, bucket, key, uploadId) ==
    [command |-> name, Bucket |-> bucket, Key |-> key, UploadId |-> uploadId]

Send(call, command) ==
    [call EXCEPT !.pc = "send", !.sends = @ + 1, !.command = command]

\* variant: the catch block logs and rethrows what it caught
CatchRethrow(call, response, error, message, context) ==
    [call EXCEPT !.pc = "rejected", !.response = response,
                 !.logged = Append(@, message),
                 !.error = error]

\* catch (error) { logger.error(message, ...); throw fromS3Error(error, context) }
Catch(call, response, error, message, context) ==
    [call EXCEPT !.pc = "rejected", !.response = response,
                 !.logged = Append(@, message),
                 !.error = fromS3Error(error, context)]

Tracked == DOMAIN uploads

\* Map.set / Map.delete
MapSet(m, k, v) == [x \in DOMAIN m \cup {k} |-> IF x = k THEN v ELSE m[x]]
MapDelete(m, k) == [x \in DOMAIN m \ {k} |-> m[x]]

InFlight == BagToSet(inflight)
\* no call is awaiting the backend: the caller awaits each call before the next
Quiet == inflight = EmptyBag
Awaiting(c, op, pc) == c \in InFlight /\ c.op = op /\ c.pc = pc

\* call c starts awaiting / the awaiting call c moves on to d / settles as d
Issue(c) == /\ BagCardinality(inflight) < MaxInFlight
            /\ client.state = "constructed"
            /\ inflight' = inflight (+) SetToBag({c})
            /\ UNCHANGED last
Resume(c, d) == /\ inflight' = (inflight (-) SetToBag({c})) (+) SetToBag({d})
                /\ UNCHANGED last
Settle(c, d) == /\ inflight' = inflight (-) SetToBag({c})
                /\ last' = d


\* ------------------------------------------- configuration (client.ts)
\* An optional field or variable is <<>> when undefined and <<v>> when set.
Has(o) == o # <<>>
\* a || b || c on strings: undefined and '' are falsy
OrElse(a, b, c) ==
    IF Has(a) /\ a[1] # NoStr THEN a[1] ELSE IF Has(b) /\ b[1] # NoStr THEN b[1] ELSE c
\* a ?? c
Nullish(a, c) == IF Has(a) THEN a[1] ELSE c

Unset == <<>>
DefaultRetryPolicy == [maxRetries |-> 3, retryDelay |-> 1000, retryDelayMultiplier |-> 2]
CustomRetryPolicy == [maxRetries |-> 1, retryDelay |-> 5, retryDelayMultiplier |-> 1]

\* variant: the environment is consulted before the explicit value
mergeConfigEnvFirst(config, e) ==
    [endpoint |-> OrElse(e.FASTLY_ENDPOINT, config.endpoint, NoStr),
     accessKeyId |-> OrElse(e.FASTLY_ACCESS_KEY_ID, config.accessKeyId, NoStr),
     secretAccessKey |-> OrElse(e.FASTLY_SECRET_ACCESS_KEY, config.secretAccessKey, NoStr),
     region |-> OrElse(e.FASTLY_REGION, config.region, "us-east-1"),
     maxRetries |-> Nullish(config.maxRetries, 3),
     timeout |-> Nullish(config.timeout, 30000),
     logger |-> IF Has(config.logger) THEN config.logger[1] ELSE "DefaultLogger",
     retryPolicy |-> IF Has(config.retryPolicy) THEN config.retryPolicy[1] ELSE DefaultRetryPolicy,
     forcePathStyle |-> Nullish(config.forcePathStyle, TRUE)]

\* FastlyStorageClient._mergeConfig
mergeConfig(config, e) ==
    [endpoint |-> OrElse(config.endpoint, e.FASTLY_ENDPOINT, NoStr),
     accessKeyId |-> OrElse(config.accessKeyId, e.FASTLY_ACCESS_KEY_ID, NoStr),
     secretAccessKey |-> OrElse(config.secretAccessKey, e.FASTLY_SECRET_ACCESS_KEY, NoStr),
     region |-> OrElse(config.region, e.FASTLY_REGION, "us-east-1"),
     maxRetries |-> Nullish(config.maxRetries, 3),
     timeout |-> Nullish(config.timeout, 30000),
     logger |-> IF Has(config.logger) THEN config.logger[1] ELSE "DefaultLogger",
     retryPolicy |-> IF Has(config.retryPolicy) THEN config.retryPolicy[1] ELSE DefaultRetryPolicy,
     forcePathStyle |-> Nullish(config.forcePathStyle, TRUE)]

\* isValidUrl: whether `new URL(url)` accepts the string.  The strings used
\* here that the URL parser accepts are the absolute ones.
ParsableUrls == {"https://x", "https://env"}
isValidUrl(url) == url \in ParsableUrls

InvalidConfig(message, field) ==
    FastlyStorageError(message, "INVALID_CONFIG", NoStatus, [field |-> field], NoError)

\* variant: a zero timeout is let through
validateConfigZeroTimeout(config) ==
    IF config.endpoint = NoStr THEN InvalidConfig("Endpoint is required", "endpoint")
    ELSE IF config.accessKeyId = NoStr THEN InvalidConfig("Access Key ID is required", "accessKeyId")
    ELSE IF config.secretAccessKey = NoStr
         THEN InvalidConfig("Secret Access Key is required", "secretAccessKey")
    ELSE IF ~isValidUrl(config.endpoint) THEN InvalidConfig("Invalid endpoint URL", "endpoint")
    ELSE IF config.maxRetries < 0 THEN InvalidConfig("maxRetries must be non-negative", "maxRetries")
    ELSE IF config.timeout < 0 THEN InvalidConfig("timeout must be positive", "timeout")
    ELSE NoError

\* validateConfig: the error it throws, NoError when it returns
validateConfig(config) ==
    IF config.endpoint = NoStr THEN InvalidConfig("Endpoint is required", "endpoint")
    ELSE IF config.accessKeyId = NoStr THEN InvalidConfig("Access Key ID is required", "accessKeyId")
    ELSE IF config.secretAccessKey = NoStr
         THEN InvalidConfig("Secret Access Key is required", "secretAccessKey")
    ELSE IF ~isValidUrl(config.endpoint) THEN InvalidConfig("Invalid endpoint URL", "endpoint")
    ELSE IF config.maxRetries < 0 THEN InvalidConfig("maxRetries must be non-negative", "maxRetries")
    ELSE IF config.timeout <= 0 THEN InvalidConfig("timeout must be positive", "timeout")
    ELSE NoError

\* FastlyStorageClient._initializeS3Client: the S3ClientConfig
initializeS3Client(config) ==
    [endpoint |-> config.endpoint, region |-> config.region,
     accessKeyId |-> config.accessKeyId, secretAccessKey |-> config.secretAccessKey,
     forcePathStyle |-> config.forcePathStyle,
     maxAttempts |-> config.maxRetries + 1, requestTimeout |-> config.timeout]

NoS3Client == [endpoint |-> NoStr]
OperationGroups == {"BucketOperations", "ObjectOperations", "MultipartOperations",
                    "PresignedUrlOperations"}

\* before `new FastlyStorageClient(config)`
NoClient ==
    [state |-> "none", input |-> <<>>, config |-> <<>>, s3Client |-> NoS3Client,
     groups |-> {}, error |-> NoError]

\* variant: the S3 client is created before the configuration is validated
ConstructEager(config, e) ==
    LET merged == mergeConfig(config, e)
        thrown == validateConfig(merged)
    IN  IF thrown # NoError
        THEN [NoClient EXCEPT !.state = "failed", !.input = config, !.config = merged,
                              !.s3Client = initializeS3Client(merged),
                              !.error = thrown]
        ELSE [NoClient EXCEPT !.state = "constructed", !.input = config, !.config = merged,
                              !.s3Client = initializeS3Client(merged),
                              !.groups = OperationGroups]

\* the constructor: merge, validate, then create the S3 client and the groups
Construct(config, e) ==
    LET merged == mergeConfig(config, e)
        thrown == validateConfig(merged)
    IN  IF thrown # NoError
        THEN [NoClient EXCEPT !.state = "failed", !.input = config, !.config = merged,
                              !.error = thrown]
        ELSE [NoClient EXCEPT !.state = "constructed", !.input = config, !.config = merged,
                              !.s3Client = initializeS3Client(merged),
                              !.groups = OperationGroups]

NoConfig ==
    [endpoint |-> Unset, accessKeyId |-> Unset, secretAccessKey |-> Unset, region |-> Unset,
     maxRetries |-> Unset, timeout |-> Unset, logger |-> Unset, retryPolicy |-> Unset,
     forcePathStyle |-> Unset]
NoEnv ==
    [FASTLY_ENDPOINT |-> Unset, FASTLY_ACCESS_KEY_ID |-> Unset,
     FASTLY_SECRET_ACCESS_KEY |-> Unset, FASTLY_REGION |-> Unset]

\* the configuration of the client the operations run on
ExampleConfig ==
    [NoConfig EXCEPT !.endpoint = <<"https://x">>, !.accessKeyId = <<"k">>,
                     !.secretAccessKey = <<"s">>]

Init ==
    /\ uploads = <<>>
    /\ inflight = EmptyBag
    /\ last = Idle
    /\ issued = {}
    /\ finished = <<>>
    /\ env = NoEnv
    /\ client = Construct(ExampleConfig, NoEnv)
    /\ objects = <<>>
    /\ caller = NoCaller

\* ------------------------------------------------- MultipartOperations
MultipartErrors == {InternalError, TimeoutError}
\* the id the backend issues next: one it has not issued before
FreshIds == IF UploadIds \ issued = {} THEN {}
            ELSE {CHOOSE id \in UploadIds \ issued : TRUE}
CreateResponses ==
    ErrorResponses(MultipartErrors) \cup {OkResponse(NoId, NoStr)}
        \cup {OkResponse(id, NoStr) : id \in FreshIds}
PartResponses == ErrorResponses(MultipartErrors) \cup {OkResponse(NoId, e) : e \in ETags \cup {NoStr}}
DoneResponses == ErrorResponses(MultipartErrors) \cup {OkResponse(NoId, "e9")}

createMultipartUpload(bucket, key) ==
    /\ Issue(Send([Idle EXCEPT !.op = "createMultipartUpload", !.bucket = bucket, !.key = key],
                  Command("CreateMultipartUpload", bucket, key, NoId)))
    /\ UNCHANGED <<uploads, issued, finished, env, client, objects, caller>>

createMultipartUploadSettle(c, r) ==
    /\ Awaiting(c, "createMultipartUpload", "send")
    /\ r \in CreateResponses
    /\ LET message == "Failed to create multipart upload"
           context == [bucket |-> c.bucket, key |-> c.key, operation |-> "createMultipartUpload"]
       IN  IF ~r.ok
           THEN /\ Settle(c, Catch(c, r, r.error, message, context))
                /\ UNCHANGED <<uploads, issued>>
           ELSE IF r.UploadId = NoId
           THEN /\ Settle(c, Catch(c, r,
                        FastlyStorageError("No upload ID returned", "NO_UPLOAD_ID", NoStatus,
                                           [bucket |-> c.bucket, key |-> c.key], NoError),
                        message, context))
                /\ UNCHANGED <<uploads, issued>>
           ELSE /\ uploads' = MapSet(uploads, r.UploadId,
                                     [uploadId |-> r.UploadId, bucket |-> c.bucket, key |-> c.key])
                /\ Settle(c, [c EXCEPT !.pc = "resolved", !.response = r,
                                       !.result = [NoResult EXCEPT !.uploadId = r.UploadId]])
                /\ issued' = issued \cup {r.UploadId}
    /\ UNCHANGED <<finished, env, client, objects, caller>>

\* the part of uploadPart / complete / abort before the await
\*   const uploadState = this.uploads.get(uploadId);
\*   if (!uploadState) throw new FastlyStorageError(..., 'UPLOAD_NOT_FOUND', ...)
UploadNotFound(call) ==
    [call EXCEPT !.pc = "rejected",
                 !.error = FastlyStorageError("Upload ID not found", "UPLOAD_NOT_FOUND", NoStatus,
                                              [uploadId |-> call.uploadId], NoError)]

\* variant: the command names the key of the call's own arguments
LookupOwnKey(call, name) ==
    IF call.uploadId \notin DOMAIN uploads
    THEN /\ last' = UploadNotFound(call)
         /\ UNCHANGED inflight
    ELSE LET uploadState == uploads[call.uploadId]
         IN  Issue(Send([call EXCEPT !.bucket = uploadState.bucket, !.key = uploadState.key],
                        Command(name, uploadState.bucket, call.key, call.uploadId)))

\* variant: the command is built and sent without the tracked check
LookupUnchecked(call, name) ==
    LET known == call.uploadId \in DOMAIN uploads
        bucket == IF known THEN uploads[call.uploadId].bucket ELSE NoStr
        key == IF known THEN uploads[call.uploadId].key ELSE NoStr
    IN  Issue(Send([call EXCEPT !.bucket = bucket, !.key = key],
                   Command(name, bucket, key, call.uploadId)))

Lookup(call, name) ==
    IF call.uploadId \notin DOMAIN uploads
    THEN /\ last' = UploadNotFound(call)
         /\ UNCHANGED inflight
    ELSE LET uploadState == uploads[call.uploadId]
         IN  Issue(Send([call EXCEPT !.bucket = uploadState.bucket, !.key = uploadState.key],
                        Command(name, uploadState.bucket, uploadState.key, call.uploadId)))

Arrive(op, uploadId) ==
    [Idle EXCEPT !.op = op, !.uploadId = uploadId,
                 !.tracked = uploadId \in DOMAIN uploads,
                 !.late = uploadId \in DOMAIN finished]

uploadPart(uploadId, partNumber, data) ==
    /\ Lookup([Arrive("uploadPart", uploadId) EXCEPT !.partNumber = partNumber, !.data = data],
              "UploadPart")
    /\ UNCHANGED <<uploads, issued, finished, env, client, objects, caller>>

\* variant: a part whose session has gone by the time the backend answers fails
uploadPartSettleRechecks(c, r) ==
    /\ Awaiting(c, "uploadPart", "send")
    /\ r \in PartResponses
    /\ LET message == "Failed to upload part"
           context == [uploadId |-> c.uploadId, partNumber |-> c.partNumber, operation |-> "uploadPart"]
       IN  IF ~r.ok
           THEN Settle(c, Catch(c, r, r.error, message, context))
           ELSE IF c.uploadId \notin DOMAIN uploads
           THEN Settle(c, [UploadNotFound(c) EXCEPT !.response = r])
           ELSE IF r.ETag = NoStr
           THEN Settle(c, Catch(c, r,
                        FastlyStorageError("No ETag returned", "NO_ETAG", NoStatus,
                                           [uploadId |-> c.uploadId, partNumber |-> c.partNumber], NoError),
                        message, context))
           ELSE Settle(c, [c EXCEPT !.pc = "resolved", !.response = r,
                                    !.result = [NoResult EXCEPT !.etag = r.ETag]])
    /\ UNCHANGED <<uploads, issued, finished, env, client, objects, caller>>

\* variant: a part the backend rejected ends the session
uploadPartSettleDrops(c, r) ==
    /\ Awaiting(c, "uploadPart", "send")
    /\ r \in PartResponses
    /\ LET message == "Failed to upload part"
           context == [uploadId |-> c.uploadId, partNumber |-> c.partNumber, operation |-> "uploadPart"]
       IN  IF ~r.ok
           THEN /\ Settle(c, Catch(c, r, r.error, message, context))
                /\ uploads' = MapDelete(uploads, c.uploadId)
           ELSE IF r.ETag = NoStr
           THEN /\ Settle(c, Catch(c, r,
                        FastlyStorageError("No ETag returned", "NO_ETAG", NoStatus,
                                           [uploadId |-> c.uploadId, partNumber |-> c.partNumber], NoError),
                        message, context))
                /\ UNCHANGED uploads
           ELSE /\ Settle(c, [c EXCEPT !.pc = "resolved", !.response = r,
                                      !.result = [NoResult EXCEPT !.etag = r.ETag]])
                /\ UNCHANGED uploads
    /\ UNCHANGED <<issued, finished, env, client, objects, caller>>

uploadPartSettle(c, r) ==
    /\ Awaiting(c, "uploadPart", "send")
    /\ r \in PartResponses
    /\ LET message == "Failed to upload part"
           context == [uploadId |-> c.uploadId, partNumber |-> c.partNumber, operation |-> "uploadPart"]
       IN  IF ~r.ok
           THEN Settle(c, Catch(c, r, r.error, message, context))
           ELSE IF r.ETag = NoStr
           THEN Settle(c, Catch(c, r,
                        FastlyStorageError("No ETag returned", "NO_ETAG", NoStatus,
                                           [uploadId |-> c.uploadId, partNumber |-> c.partNumber], NoError),
                        message, context))
           ELSE Settle(c, [c EXCEPT !.pc = "resolved", !.response = r,
                                    !.result = [NoResult EXCEPT !.etag = r.ETag]])
    /\ UNCHANGED <<uploads, issued, finished, env, client, objects, caller>>

completeMultipartUpload(uploadId, parts) ==
    /\ Lookup([Arrive("completeMultipartUpload", uploadId) EXCEPT !.parts = parts],
              "CompleteMultipartUpload")
    /\ UNCHANGED <<uploads, issued, finished, env, client, objects, caller>>

\* variant: the session is looked up again when the backend has answered
completeRechecks(c, r) ==
    /\ Awaiting(c, "completeMultipartUpload", "send")
    /\ r \in DoneResponses
    /\ LET context == [uploadId |-> c.uploadId, operation |-> "completeMultipartUpload"]
       IN  IF ~r.ok
           THEN /\ Settle(c, Catch(c, r, r.error, "Failed to complete multipart upload", context))
                /\ UNCHANGED <<uploads, finished>>
           ELSE IF c.uploadId \notin DOMAIN uploads
           THEN /\ Settle(c, [UploadNotFound(c) EXCEPT !.response = r])
                /\ UNCHANGED <<uploads, finished>>
           ELSE /\ uploads' = MapDelete(uploads, c.uploadId)
                /\ finished' = MapSet(finished, c.uploadId, [op |-> c.op, parts |-> c.parts])
                /\ Settle(c, [c EXCEPT !.pc = "resolved", !.response = r,
                                       !.result = [NoResult EXCEPT !.etag = r.ETag]])
    /\ UNCHANGED <<issued, env, client, objects, caller>>

\* variant: the session is dropped only when parts were supplied
completeKeepsEmpty(c, r) ==
    /\ Awaiting(c, "completeMultipartUpload", "send")
    /\ r \in DoneResponses
    /\ LET context == [uploadId |-> c.uploadId, operation |-> "completeMultipartUpload"]
       IN  IF ~r.ok
           THEN /\ Settle(c, Catch(c, r, r.error, "Failed to complete multipart upload", context))
                /\ UNCHANGED <<uploads, finished>>
           ELSE /\ uploads' = IF c.parts = <<>> THEN uploads ELSE MapDelete(uploads, c.uploadId)
                /\ finished' = MapSet(finished, c.uploadId, [op |-> c.op, parts |-> c.parts])
                /\ Settle(c, [c EXCEPT !.pc = "resolved", !.response = r,
                                       !.result = [NoResult EXCEPT !.etag = r.ETag]])
    /\ UNCHANGED <<issued, env, client, objects, caller>>

completeMultipartUploadSettle(c, r) ==
    /\ Awaiting(c, "completeMultipartUpload", "send")
    /\ r \in DoneResponses
    /\ LET context == [uploadId |-> c.uploadId, operation |-> "completeMultipartUpload"]
       IN  IF ~r.ok
           THEN /\ Settle(c, Catch(c, r, r.error, "Failed to complete multipart upload", context))
                /\ UNCHANGED <<uploads, finished>>
           ELSE /\ uploads' = MapDelete(uploads, c.uploadId)
                /\ finished' = MapSet(finished, c.uploadId, [op |-> c.op, parts |-> c.parts])
                /\ Settle(c, [c EXCEPT !.pc = "resolved", !.response = r,
                                       !.result = [NoResult EXCEPT !.etag = r.ETag]])
    /\ UNCHANGED <<issued, env, client, objects, caller>>

abortMultipartUpload(uploadId) ==
    /\ Lookup(Arrive("abortMultipartUpload", uploadId), "AbortMultipartUpload")
    /\ UNCHANGED <<uploads, issued, finished, env, client, objects, caller>>

\* variant: a successful abort leaves the session in the map
abortKeepsSession(c, r) ==
    /\ Awaiting(c, "abortMultipartUpload", "send")
    /\ r \in DoneResponses
    /\ LET context == [uploadId |-> c.uploadId, operation |-> "abortMultipartUpload"]
       IN  IF ~r.ok
           THEN /\ Settle(c, Catch(c, r, r.error, "Failed to abort multipart upload", context))
                /\ UNCHANGED <<uploads, finished>>
           ELSE /\ UNCHANGED uploads
                /\ finished' = MapSet(finished, c.uploadId, [op |-> c.op, parts |-> c.parts])
                /\ Settle(c, [c EXCEPT !.pc = "resolved", !.response = r])
    /\ UNCHANGED <<issued, env, client, objects, caller>>

\* variant: the session is dropped whatever the backend answered
abortDropsAlways(c, r) ==
    /\ Awaiting(c, "abortMultipartUpload", "send")
    /\ r \in DoneResponses
    /\ LET context == [uploadId |-> c.uploadId, operation |-> "abortMultipartUpload"]
       IN  IF ~r.ok
           THEN /\ Settle(c, Catch(c, r, r.error, "Failed to abort multipart upload", context))
                /\ uploads' = MapDelete(uploads, c.uploadId)
                /\ UNCHANGED finished
           ELSE /\ uploads' = MapDelete(uploads, c.uploadId)
                /\ finished' = MapSet(finished, c.uploadId, [op |-> c.op, parts |-> c.parts])
                /\ Settle(c, [c EXCEPT !.pc = "resolved", !.response = r])
    /\ UNCHANGED <<issued, env, client, objects, caller>>

abortMultipartUploadSettle(c, r) ==
    /\ Awaiting(c, "abortMultipartUpload", "send")
    /\ r \in DoneResponses
    /\ LET context == [uploadId |-> c.uploadId, operation |-> "abortMultipartUpload"]
       IN  IF ~r.ok
           THEN /\ Settle(c, Catch(c, r, r.error, "Failed to abort multipart upload", context))
                /\ UNCHANGED <<uploads, finished>>
           ELSE /\ uploads' = MapDelete(uploads, c.uploadId)
                /\ finished' = MapSet(finished, c.uploadId, [op |-> c.op, parts |-> c.parts])
                /\ Settle(c, [c EXCEPT !.pc = "resolved", !.response = r])
    /\ UNCHANGED <<issued, env, client, objects, caller>>

\* ---------------------------------------------------- ObjectOperations
\* streamToBuffer: Buffer.concat of the chunks the stream delivered
RECURSIVE Concat(_)
Concat(chunks) == IF chunks = <<>> THEN <<>> ELSE Head(chunks) \o Concat(Tail(chunks))

\* the payloads a caller uploads and the backend serves
Payloads == {<<>>, <<7>>, <<1, 2>>}
\* the ways a stream delivers a payload: nothing for an empty one, otherwise
\* in one chunk or in two
Chunkings(body) ==
    IF body = <<>> THEN {<<>>}
    ELSE {<<body>>} \cup
         {<<SubSeq(body, 1, i), SubSeq(body, i + 1, Len(body))>> : i \in 1..(Len(body) - 1)}
Bodies ==
    {NoBody} \cup
    {[present |-> TRUE, chunks |-> ch, ends |-> e] :
        ch \in UNION {Chunkings(body) : body \in Payloads}, e \in BOOLEAN}
ObjectETags == {"e1", "e2"}
StreamError == [name |-> "Error", message |-> "aborted"]
GetResponses ==
    ErrorResponses(S3Errors) \cup
    {[OkResponse(NoId, e) EXCEPT !.Body = b] : e \in ObjectETags, b \in Bodies}

EmptyBody(c) ==
    FastlyStorageError("Empty response body", "EMPTY_BODY", NoStatus,
                       [bucket |-> c.bucket, key |-> c.key], NoError)

getObject(bucket, key) ==
    /\ Issue(Send([Idle EXCEPT !.op = "getObject", !.bucket = bucket, !.key = key],
                  Command("GetObject", bucket, key, NoId)))
    /\ UNCHANGED <<uploads, issued, finished, env, client, objects, caller>>

\* the response arrives: without a payload the defensive check throws inside
\* the try block, otherwise the call awaits streamToBuffer
getObjectSettle(c, r) ==
    /\ Awaiting(c, "getObject", "send")
    /\ r \in GetResponses
    /\ LET context == [bucket |-> c.bucket, key |-> c.key, operation |-> "getObject"]
       IN  IF ~r.ok
           THEN Settle(c, Catch(c, r, r.error, "Failed to get object", context))
           ELSE IF ~r.Body.present
           THEN Settle(c, Catch(c, r, EmptyBody(c), "Failed to get object", context))
           ELSE Resume(c, [c EXCEPT !.pc = "stream", !.response = r])
    /\ UNCHANGED <<uploads, issued, finished, env, client, objects, caller>>

\* variant: only the first chunk the stream delivered is kept
getObjectStreamedFirst(c) ==
    /\ Awaiting(c, "getObject", "stream")
    /\ LET r == c.response
           context == [bucket |-> c.bucket, key |-> c.key, operation |-> "getObject"]
       IN  IF r.Body.ends
           THEN Settle(c, [c EXCEPT !.pc = "resolved",
                             !.result = [NoResult EXCEPT
                                 !.body = IF r.Body.chunks = <<>> THEN <<>>
                                          ELSE Head(r.Body.chunks),
                                 !.etag = r.ETag]])
           ELSE Settle(c, Catch(c, r, StreamError, "Failed to get object", context))
    /\ UNCHANGED <<uploads, issued, finished, env, client, objects, caller>>

\* the stream emits 'end' or 'error'
getObjectStreamed(c) ==
    /\ Awaiting(c, "getObject", "stream")
    /\ LET r == c.response
           context == [bucket |-> c.bucket, key |-> c.key, operation |-> "getObject"]
       IN  IF r.Body.ends
           THEN Settle(c, [c EXCEPT !.pc = "resolved",
                             !.result = [NoResult EXCEPT !.body = Concat(r.Body.chunks),
                                                         !.etag = r.ETag]])
           ELSE Settle(c, Catch(c, r, StreamError, "Failed to get object", context))
    /\ UNCHANGED <<uploads, issued, finished, env, client, objects, caller>>

getObjectStream(bucket, key) ==
    /\ Issue(Send([Idle EXCEPT !.op = "getObjectStream", !.bucket = bucket, !.key = key],
                  Command("GetObject", bucket, key, NoId)))
    /\ UNCHANGED <<uploads, issued, finished, env, client, objects, caller>>

getObjectStreamSettle(c, r) ==
    /\ Awaiting(c, "getObjectStream", "send")
    /\ r \in GetResponses
    /\ LET context == [bucket |-> c.bucket, key |-> c.key, operation |-> "getObjectStream"]
       IN  IF ~r.ok
           THEN Settle(c, Catch(c, r, r.error, "Failed to get object stream", context))
           ELSE IF ~r.Body.present
           THEN Settle(c, Catch(c, r, EmptyBody(c), "Failed to get object stream", context))
           ELSE Settle(c, [c EXCEPT !.pc = "resolved", !.response = r])
    /\ UNCHANGED <<uploads, issued, finished, env, client, objects, caller>>

\* options?.abortSignal of the upload options
UploadOptions == {[abortSignal |-> Unset], [abortSignal |-> <<"live">>]}
PutResponses == ErrorResponses(S3Errors) \cup {OkResponse(NoId, e) : e \in ObjectETags}

\* uploadObject builds the PutObject command and sends it; options.abortSignal
\* is not read
uploadObject(bucket, key, data, options) ==
    /\ Issue(Send([Idle EXCEPT !.op = "uploadObject", !.bucket = bucket, !.key = key,
                               !.data = data,
                               !.signal = Nullish(options.abortSignal, "none")],
                  Command("PutObject", bucket, key, NoId) @@ [Body |-> data]))
    /\ UNCHANGED <<uploads, issued, finished, env, client, objects, caller>>

\* the continuation of uploadObject; what the backend does with the object is
\* conjoined where the action is used
uploadObjectSettle(c, r) ==
    /\ Awaiting(c, "uploadObject", "send")
    /\ r \in PutResponses
    /\ LET context == [bucket |-> c.bucket, key |-> c.key, operation |-> "uploadObject"]
       IN  IF ~r.ok
           THEN Settle(c, Catch(c, r, r.error, "Failed to upload object", context))
           ELSE Settle(c, [c EXCEPT !.pc = "resolved", !.response = r,
                                    !.result = [NoResult EXCEPT !.etag = r.ETag]])
    /\ UNCHANGED <<uploads, issued, finished, env, client, caller>>

\* controller.abort() of the caller while the call is in flight: the signal
\* was handed to no request and has no listener
controllerAbort(c) ==
    /\ c \in InFlight
    /\ c.signal = "live"
    /\ Resume(c, [c EXCEPT !.signal = "aborted"])
    /\ UNCHANGED <<uploads, issued, finished, env, client, objects, caller>>

deleteObject(bucket, key) ==
    /\ Issue(Send([Idle EXCEPT !.op = "deleteObject", !.bucket = bucket, !.key = key],
                  Command("DeleteObject", bucket, key, NoId)))
    /\ UNCHANGED <<uploads, issued, finished, env, client, objects, caller>>

\* variant: a failed delete is sent once more before the error is raised
deleteObjectSettleRetry(c, r) ==
    /\ Awaiting(c, "deleteObject", "send")
    /\ r \in PutResponses
    /\ LET context == [bucket |-> c.bucket, key |-> c.key, operation |-> "deleteObject"]
       IN  IF ~r.ok /\ c.sends < 2
           THEN Resume(c, Send(c, c.command))
           ELSE IF ~r.ok
           THEN Settle(c, Catch(c, r, r.error, "Failed to delete object", context))
           ELSE Settle(c, [c EXCEPT !.pc = "resolved", !.response = r])
    /\ UNCHANGED <<uploads, issued, finished, env, client, objects, caller>>

deleteObjectSettle(c, r) ==
    /\ Awaiting(c, "deleteObject", "send")
    /\ r \in PutResponses
    /\ LET context == [bucket |-> c.bucket, key |-> c.key, operation |-> "deleteObject"]
       IN  IF ~r.ok
           THEN Settle(c, Catch(c, r, r.error, "Failed to delete object", context))
           ELSE Settle(c, [c EXCEPT !.pc = "resolved", !.response = r])
    /\ UNCHANGED <<uploads, issued, finished, env, client, objects, caller>>

copyObject(sourceBucket, sourceKey, destBucket, destKey) ==
    /\ Issue(Send([Idle EXCEPT !.op = "copyObject", !.bucket = destBucket, !.key = destKey,
                               !.sourceBucket = sourceBucket, !.sourceKey = sourceKey],
                  Command("CopyObject", destBucket, destKey, NoId)
                      @@ [CopySource |-> <<sourceBucket, "/", sourceKey>>]))
    /\ UNCHANGED <<uploads, issued, finished, env, client, objects, caller>>

copyObjectSettle(c, r) ==
    /\ Awaiting(c, "copyObject", "send")
    /\ r \in PutResponses
    /\ LET context == [sourceBucket |-> c.sourceBucket, sourceKey |-> c.sourceKey,
                       destBucket |-> c.bucket, destKey |-> c.key, operation |-> "copyObject"]
       IN  IF ~r.ok
           THEN Settle(c, Catch(c, r, r.error, "Failed to copy object", context))
           ELSE Settle(c, [c EXCEPT !.pc = "resolved", !.response = r,
                                    !.result = [NoResult EXCEPT !.etag = r.ETag]])
    /\ UNCHANGED <<uploads, issued, finished, env, client, objects, caller>>

headObject(bucket, key) ==
    /\ Issue(Send([Idle EXCEPT !.op = "headObject", !.bucket = bucket, !.key = key],
                  Command("HeadObject", bucket, key, NoId)))
    /\ UNCHANGED <<uploads, issued, finished, env, client, objects, caller>>

headObjectSettle(c, r) ==
    /\ Awaiting(c, "headObject", "send")
    /\ r \in PutResponses
    /\ LET context == [bucket |-> c.bucket, key |-> c.key, operation |-> "headObject"]
       IN  IF ~r.ok
           THEN Settle(c, Catch(c, r, r.error, "Failed to get object metadata", context))
           ELSE Settle(c, [c EXCEPT !.pc = "resolved", !.response = r,
                                    !.result = [NoResult EXCEPT !.etag = r.ETag]])
    /\ UNCHANGED <<uploads, issued, finished, env, client, objects, caller>>

\* uploads against a backend of any behaviour, with callers that cancel
NextUpload ==
    \/ \E t \in Targets, data \in Payloads, o \in UploadOptions :
          uploadObject(t[1], t[2], data, o)
    \/ \E c \in InFlight, r \in PutResponses : uploadObjectSettle(c, r) /\ UNCHANGED objects
    \/ \E c \in InFlight : controllerAbort(c)

SpecUpload == Init /\ [][NextUpload]_vars

NextObject ==
    \/ \E t \in Targets : getObject(t[1], t[2])
    \/ \E c \in InFlight, r \in GetResponses : getObjectSettle(c, r)
    \/ \E c \in InFlight : getObjectStreamed(c)
    \/ \E t \in Targets : getObjectStream(t[1], t[2])
    \/ \E c \in InFlight, r \in GetResponses : getObjectStreamSettle(c, r)

SpecObject == Init /\ [][NextObject]_vars

\* ---------------------------------------------------- BucketOperations
BucketNames == {"b1", "b2"}
BucketLists ==
    { <<>>,
      <<[Name |-> "b1", CreationDate |-> 11]>>,
      <<[Name |-> "b2", CreationDate |-> 22], [Name |-> "b1", CreationDate |-> 11]>> }
HeadResponses == ErrorResponses(S3Errors) \cup {OkResponse(NoId, NoStr)}
ListResponses ==
    ErrorResponses(S3Errors) \cup {[OkResponse(NoId, NoStr) EXCEPT !.Buckets = l] : l \in BucketLists}

listBuckets ==
    /\ Issue(Send([Idle EXCEPT !.op = "listBuckets"], Command("ListBuckets", NoStr, NoStr, NoId)))
    /\ UNCHANGED <<uploads, issued, finished, env, client, objects, caller>>

\* the catch block of listBuckets
listBucketsCatch(c, r) ==
    Catch(c, r, r.error, "Failed to list buckets", [operation |-> "listBuckets"])

listBucketsSettle(c, r) ==
    /\ Awaiting(c, "listBuckets", "send")
    /\ r \in ListResponses
    /\ IF ~r.ok
       THEN Settle(c, listBucketsCatch(c, r))
       ELSE Settle(c, [c EXCEPT !.pc = "resolved", !.response = r])
    /\ UNCHANGED <<uploads, issued, finished, env, client, objects, caller>>

getBucketInfo(name) ==
    /\ Issue(Send([Idle EXCEPT !.op = "getBucketInfo", !.bucket = name],
                  Command("HeadBucket", name, NoStr, NoId)))
    /\ UNCHANGED <<uploads, issued, finished, env, client, objects, caller>>

\* variant: a failed existence check is swallowed and the listing still sent
getBucketInfoSettleAnyway(c, r) ==
    /\ Awaiting(c, "getBucketInfo", "send")
    /\ r \in HeadResponses
    /\ Resume(c, [Send(c, Command("ListBuckets", NoStr, NoStr, NoId))
                    EXCEPT !.pc = "list", !.response = r])
    /\ UNCHANGED <<uploads, issued, finished, env, client, objects, caller>>

\* the existence check is answered: on success the nested listBuckets() sends
getBucketInfoSettle(c, r) ==
    /\ Awaiting(c, "getBucketInfo", "send")
    /\ r \in HeadResponses
    /\ LET context == [bucket |-> c.bucket, operation |-> "getBucketInfo"]
       IN  IF ~r.ok
           THEN Settle(c, Catch(c, r, r.error, "Failed to get bucket info", context))
           ELSE Resume(c, [Send(c, Command("ListBuckets", NoStr, NoStr, NoId))
                             EXCEPT !.pc = "list", !.response = r])
    /\ UNCHANGED <<uploads, issued, finished, env, client, objects, caller>>

\* buckets.find((b) => b.name === name): the first match, if any
Find(buckets, name) ==
    LET hits == {i \in 1..Len(buckets) : buckets[i].Name = name}
    IN  IF hits = {} THEN 0 ELSE CHOOSE i \in hits : \A j \in hits : i <= j

\* the nested listBuckets() settles
getBucketInfoListed(c, r) ==
    /\ Awaiting(c, "getBucketInfo", "list")
    /\ r \in ListResponses
    /\ LET context == [bucket |-> c.bucket, operation |-> "getBucketInfo"]
           message == "Failed to get bucket info"
           found == Find(r.Buckets, c.bucket)
       IN  IF ~r.ok
           THEN LET inner == listBucketsCatch(c, r)
                IN  Settle(c, Catch(inner, r, inner.error, message, context))
           ELSE IF found = 0
           THEN Settle(c, Catch(c, r,
                        FastlyStorageError("Bucket not found", "NOT_FOUND", 404,
                                           [bucket |-> c.bucket], NoError),
                        message, context))
           ELSE Settle(c, [c EXCEPT !.pc = "resolved", !.response = r,
                             !.result = [NoResult EXCEPT !.name = r.Buckets[found].Name,
                                            !.creationDate = r.Buckets[found].CreationDate]])
    /\ UNCHANGED <<uploads, issued, finished, env, client, objects, caller>>

\* the names a caller creates and deletes buckets with, and their characters
CreateNames == {"ab", "my-bucket"}
Characters ==
    ("ab" :> <<"a", "b">>) @@ ("my-bucket" :> <<"m", "y", "-", "b", "u", "c", "k", "e", "t">>)
VoidResponses == ErrorResponses(S3Errors) \cup {OkResponse(NoId, NoStr)}

\* createBucket builds the command from the name as given and sends it
createBucket(name) ==
    /\ Issue(Send([Idle EXCEPT !.op = "createBucket", !.bucket = name],
                  Command("CreateBucket", name, NoStr, NoId)))
    /\ UNCHANGED <<uploads, issued, finished, env, client, objects, caller>>

createBucketSettle(c, r) ==
    /\ Awaiting(c, "createBucket", "send")
    /\ r \in VoidResponses
    /\ LET context == [bucket |-> c.bucket, operation |-> "createBucket"]
       IN  IF ~r.ok
           THEN Settle(c, Catch(c, r, r.error, "Failed to create bucket", context))
           ELSE Settle(c, [c EXCEPT !.pc = "resolved", !.response = r])
    /\ UNCHANGED <<uploads, issued, finished, env, client, objects, caller>>

deleteBucket(name) ==
    /\ Issue(Send([Idle EXCEPT !.op = "deleteBucket", !.bucket = name],
                  Command("DeleteBucket", name, NoStr, NoId)))
    /\ UNCHANGED <<uploads, issued, finished, env, client, objects, caller>>

deleteBucketSettle(c, r) ==
    /\ Awaiting(c, "deleteBucket", "send")
    /\ r \in VoidResponses
    /\ LET context == [bucket |-> c.bucket, operation |-> "deleteBucket"]
       IN  IF ~r.ok
           THEN Settle(c, Catch(c, r, r.error, "Failed to delete bucket", context))
           ELSE Settle(c, [c EXCEPT !.pc = "resolved", !.response = r])
    /\ UNCHANGED <<uploads, issued, finished, env, client, objects, caller>>

NextBucket ==
    \/ \E n \in CreateNames : createBucket(n)
    \/ \E c \in InFlight, r \in VoidResponses : createBucketSettle(c, r)
    \/ \E n \in CreateNames : deleteBucket(n)
    \/ \E c \in InFlight, r \in VoidResponses : deleteBucketSettle(c, r)
    \/ listBuckets
    \/ \E c \in InFlight, r \in ListResponses : listBucketsSettle(c, r)
    \/ \E n \in BucketNames : getBucketInfo(n)
    \/ \E c \in InFlight, r \in HeadResponses : getBucketInfoSettle(c, r)
    \/ \E c \in InFlight, r \in ListResponses : getBucketInfoListed(c, r)

SpecBucket == Init /\ [][NextBucket]_vars

\* ----------------------------------------------- PresignedUrlOperations
Expiries == {1800, 3600}
\* the times at which a URL is signed
Times == {1, 2}
CredentialsError == [name |-> "CredentialsProviderError", message |-> "no credentials"]
PresignOps == {"getPresignedDownloadUrl", "getPresignedUploadUrl"}

\* getSignedUrl(client, command, {expiresIn}) at signing time `time`: the URL
\* names the endpoint, the addressing style, the bucket and the key, and
\* carries the credential scope, the date, the expiry and a signature over
\* all of them under the secret key
SignedUrl(s3Client, command, expiresIn, time) ==
    [method |-> IF command.command = "GetObject" THEN "GET" ELSE "PUT",
     endpoint |-> s3Client.endpoint, pathStyle |-> s3Client.forcePathStyle,
     bucket |-> command.Bucket, key |-> command.Key,
     credential |-> <<s3Client.accessKeyId, s3Client.region>>,
     date |-> time, expires |-> expiresIn,
     signature |-> <<s3Client.secretAccessKey, command.command, command.Bucket,
                     command.Key, s3Client.region, time, expiresIn>>]
SignResponses(c) ==
    ErrorResponses({CredentialsError}) \cup
    {[OkResponse(NoId, NoStr) EXCEPT !.Url = SignedUrl(client.s3Client, c.command, c.expiresIn, t)] :
        t \in Times}

\* the part of both methods before `await getSignedUrl(...)`
Presign(op, name, bucket, key, expiresIn) ==
    Issue([Idle EXCEPT !.op = op, !.pc = "sign", !.bucket = bucket, !.key = key,
                       !.expiresIn = expiresIn,
                       !.command = Command(name, bucket, key, NoId),
                       !.again = /\ Has(caller.remembered)
                                 /\ caller.remembered[1].op = op
                                 /\ caller.remembered[1].bucket = bucket
                                 /\ caller.remembered[1].key = key
                                 /\ caller.remembered[1].expiresIn = expiresIn])

\* the continuation of both methods: return url, or catch and wrap (no log entry)
Presigned(c, r) ==
    IF ~r.ok
    THEN Settle(c, [c EXCEPT !.pc = "rejected", !.response = r,
                      !.error = fromS3Error(r.error,
                                    [bucket |-> c.bucket, key |-> c.key, operation |-> c.op])])
    ELSE Settle(c, [c EXCEPT !.pc = "resolved", !.response = r,
                             !.result = [NoResult EXCEPT !.url = r.Url]])

getPresignedDownloadUrl(bucket, key, expiresIn) ==
    /\ Presign("getPresignedDownloadUrl", "GetObject", bucket, key, expiresIn)
    /\ UNCHANGED <<uploads, issued, finished, env, client, objects, caller>>

\* variant: the URL of the previous download call is handed out again
getPresignedDownloadUrlCached(c, r) ==
    /\ Awaiting(c, "getPresignedDownloadUrl", "sign")
    /\ r \in SignResponses(c)
    /\ IF r.ok /\ last.op = c.op /\ last.pc = "resolved"
       THEN Presigned(c, [r EXCEPT !.Url = last.result.url])
       ELSE Presigned(c, r)
    /\ UNCHANGED <<uploads, issued, finished, env, client, objects, caller>>

getPresignedDownloadUrlSettle(c, r) ==
    /\ Awaiting(c, "getPresignedDownloadUrl", "sign")
    /\ r \in SignResponses(c)
    /\ Presigned(c, r)
    /\ UNCHANGED <<uploads, issued, finished, env, client, objects, caller>>

getPresignedUploadUrl(bucket, key, expiresIn) ==
    /\ Presign("getPresignedUploadUrl", "PutObject", bucket, key, expiresIn)
    /\ UNCHANGED <<uploads, issued, finished, env, client, objects, caller>>

getPresignedUploadUrlSettle(c, r) ==
    /\ Awaiting(c, "getPresignedUploadUrl", "sign")
    /\ r \in SignResponses(c)
    /\ Presigned(c, r)
    /\ UNCHANGED <<uploads, issued, finished, env, client, objects, caller>>

\* the caller keeps the URL it has just received, with the inputs it gave
remember ==
    /\ last.op \in PresignOps
    /\ last.pc = "resolved"
    /\ caller' = [caller EXCEPT !.remembered =
                     <<[op |-> last.op, bucket |-> last.bucket, key |-> last.key,
                        expiresIn |-> last.expiresIn, url |-> last.result.url]>>]
    /\ UNCHANGED <<uploads, inflight, last, issued, finished, env, client, objects>>

NextPresign ==
    \/ \E t \in Targets, e \in Expiries : getPresignedDownloadUrl(t[1], t[2], e)
    \/ \E c \in InFlight : \E r \in SignResponses(c) : getPresignedDownloadUrlSettle(c, r)
    \/ \E t \in Targets, e \in Expiries : getPresignedUploadUrl(t[1], t[2], e)
    \/ \E c \in InFlight : \E r \in SignResponses(c) : getPresignedUploadUrlSettle(c, r)
    \/ remember

SpecPresign == Init /\ [][NextPresign]_vars

\* ------------------------------------------------------------ listObjects
\* the keys a bucket may hold, in the order the backend lists them
KeyNames == <<"k1", "k2", "k3", "k4", "k5", "k6">>
Keys == {KeyNames[i] : i \in 1..MaxObjects}
KeyIndex(key) == CHOOSE i \in 1..Len(KeyNames) : KeyNames[i] = key
InOrder(keys) == SelectSeq(KeyNames, LAMBDA k : k \in keys)

\* one page of a ListObjectsV2 response
Page(keys, truncated, token) ==
    [OkResponse(NoId, NoStr) EXCEPT !.Contents = [i \in 1..Len(keys) |-> [Key |-> keys[i]]],
                                    !.IsTruncated = truncated,
                                    !.NextContinuationToken = token]
ListingResponses ==
    ErrorResponses(S3Errors) \cup
    {Page(InOrder(ks), t, k) : ks \in SUBSET Keys, t \in BOOLEAN, k \in Keys \cup {NoStr}}

\* listObjects builds the ListObjectsV2 command from the options and sends it.
\* The call notes the keys of the pages that led to its continuation token.
listObjects(bucket, options) ==
    /\ Issue(Send([Idle EXCEPT !.op = "listObjects", !.bucket = bucket,
                      !.maxKeys = options.maxKeys,
                      !.continuationToken = options.continuationToken,
                      !.seen = IF /\ options.continuationToken # NoStr
                                  /\ last.op = "listObjects" /\ last.pc = "resolved"
                                  /\ last.bucket = bucket
                                  /\ last.result.nextContinuationToken = options.continuationToken
                               THEN last.seen \o [i \in 1..Len(last.result.contents) |->
                                                     last.result.contents[i].key]
                               ELSE <<>>],
                  Command("ListObjectsV2", bucket, NoStr, NoId)
                      @@ [MaxKeys |-> options.maxKeys,
                          ContinuationToken |-> options.continuationToken]))
    /\ UNCHANGED <<uploads, issued, finished, env, client, objects, caller>>

\* variant: the page is reported as the last one whatever the backend said
listObjectsSettleLast(c, r) ==
    /\ Awaiting(c, "listObjects", "send")
    /\ r \in ListingResponses
    /\ LET context == [bucket |-> c.bucket, operation |-> "listObjects"]
       IN  IF ~r.ok
           THEN Settle(c, Catch(c, r, r.error, "Failed to list objects", context))
           ELSE Settle(c, [c EXCEPT !.pc = "resolved", !.response = r,
                     !.result = [NoResult EXCEPT
                         !.contents = [i \in 1..Len(r.Contents) |-> [key |-> r.Contents[i].Key]],
                         !.isTruncated = FALSE,
                         !.nextContinuationToken = r.NextContinuationToken]])
    /\ UNCHANGED <<uploads, issued, finished, env, client, objects, caller>>

listObjectsSettle(c, r) ==
    /\ Awaiting(c, "listObjects", "send")
    /\ r \in ListingResponses
    /\ LET context == [bucket |-> c.bucket, operation |-> "listObjects"]
       IN  IF ~r.ok
           THEN Settle(c, Catch(c, r, r.error, "Failed to list objects", context))
           ELSE Settle(c, [c EXCEPT !.pc = "resolved", !.response = r,
                     !.result = [NoResult EXCEPT
                         !.contents = [i \in 1..Len(r.Contents) |-> [key |-> r.Contents[i].Key]],
                         !.isTruncated = r.IsTruncated,
                         !.nextContinuationToken = r.NextContinuationToken]])
    /\ UNCHANGED <<uploads, issued, finished, env, client, objects, caller>>

\* ListObjectsV2 as the backend answers it: the keys of the bucket after the
\* token, at most MaxKeys of them (1000 by default); when keys remain, the
\* page is truncated and its token names the last key it holds
BucketKeys(bucket) == SelectSeq(KeyNames, LAMBDA k : <<bucket, k>> \in DOMAIN objects)
PageOf(command) ==
    LET token == command.ContinuationToken
        rest == SelectSeq(BucketKeys(command.Bucket),
                          LAMBDA k : token = NoStr \/ KeyIndex(k) > KeyIndex(token))
        limit == Nullish(command.MaxKeys, 1000)
        keys == IF Len(rest) > limit THEN SubSeq(rest, 1, limit) ELSE rest
    IN  IF Len(rest) > limit THEN Page(keys, TRUE, keys[Len(keys)])
        ELSE Page(keys, FALSE, NoStr)
Lists(c, r) == r = PageOf(c.command)

\* the bucket holds any of the keys; the caller has chosen its page size
InitList ==
    /\ uploads = <<>>
    /\ inflight = EmptyBag
    /\ last = Idle
    /\ issued = {}
    /\ finished = <<>>
    /\ env = NoEnv
    /\ client = Construct(ExampleConfig, NoEnv)
    /\ objects \in {[t \in {<<"b1", k>> : k \in ks} |-> [body |-> <<>>, etag |-> "e1"]] :
                       ks \in SUBSET Keys}
    /\ caller \in {[NoCaller EXCEPT !.arg = m] : m \in {Unset} \cup {<<n>> : n \in 1..MaxObjects}}

\* the caller's loop: do { result = await listObjects(bucket, {continuationToken,
\* maxKeys}); continuationToken = result.nextContinuationToken } while (continuationToken)
paginate ==
    /\ Quiet
    /\ \/ last.pc = "idle"
       \/ last.pc = "resolved" /\ last.result.nextContinuationToken # NoStr
    /\ listObjects("b1", [maxKeys |-> caller.arg,
                          continuationToken |-> last.result.nextContinuationToken])

NextList ==
    \/ paginate
    \/ \E c \in InFlight, r \in ListingResponses : Lists(c, r) /\ listObjectsSettle(c, r)

\* the loop runs and the backend answers
SpecList == InitList /\ [][NextList]_vars /\ WF_vars(NextList)

\* ------------------------------------------ a backend that stores objects
\* PutObject as a storing backend handles it: on success the object is what
\* the command carried, under the ETag of the response
Stores(c, r) ==
    objects' = IF r.ok
               THEN MapSet(objects, <<c.command.Bucket, c.command.Key>>,
                           [body |-> c.command.Body, etag |-> r.ETag])
               ELSE objects

\* GetObject as a storing backend answers it: a success carries the stored
\* ETag and a stream that delivers the stored bytes
Serves(c, r) ==
    LET t == <<c.command.Bucket, c.command.Key>>
    IN  r.ok => /\ t \in DOMAIN objects
                /\ r.ETag = objects[t].etag
                /\ r.Body.present
                /\ r.Body.chunks \in Chunkings(objects[t].body)

NextRoundTrip ==
    \/ \E t \in Targets, data \in Payloads :
          Quiet /\ uploadObject(t[1], t[2], data, [abortSignal |-> Unset])
    \/ \E c \in InFlight, r \in PutResponses : uploadObjectSettle(c, r) /\ Stores(c, r)
    \/ \E t \in Targets : Quiet /\ getObject(t[1], t[2])
    \/ \E c \in InFlight, r \in GetResponses : Serves(c, r) /\ getObjectSettle(c, r)
    \/ \E c \in InFlight : getObjectStreamed(c)

SpecRoundTrip == Init /\ [][NextRoundTrip]_vars

\* ------------------------------------------- validation (utils/validation)
\* A name is the sequence of its characters.
LowerCase == {"a", "b", "c", "d", "e", "f", "g", "h", "i", "j", "k", "l", "m",
              "n", "o", "p", "q", "r", "s", "t", "u", "v", "w", "x", "y", "z"}
Digits == {"0", "1", "2", "3", "4", "5", "6", "7", "8", "9"}

\* /^[a-z0-9][a-z0-9.-]*[a-z0-9]$/.test(name): one character of the first
\* class, any number of the second class, one of the first class, nothing else
MatchesName(name) ==
    /\ Len(name) >= 2
    /\ name[1] \in LowerCase \cup Digits
    /\ \A i \in 2..(Len(name) - 1) : name[i] \in LowerCase \cup Digits \cup {".", "-"}
    /\ name[Len(name)] \in LowerCase \cup Digits

\* /\.\./.test(name)
HasConsecutiveDots(name) ==
    \E i \in 1..(Len(name) - 1) : name[i] = "." /\ name[i + 1] = "."

InvalidBucketName(message, context) ==
    FastlyStorageError(message, "INVALID_BUCKET_NAME", NoStatus, context, NoError)

\* variant: the upper length limit is off by one
validateBucketNameShort(name) ==
    IF name = <<>> THEN InvalidBucketName("Bucket name is required", <<>>)
    ELSE IF Len(name) < 3 \/ Len(name) >= 63
    THEN InvalidBucketName("Bucket name must be between 3 and 63 characters", [name |-> name])
    ELSE IF ~MatchesName(name)
    THEN InvalidBucketName("Bucket name must start and end with a letter or number",
                           [name |-> name])
    ELSE IF HasConsecutiveDots(name)
    THEN InvalidBucketName("Bucket name cannot contain consecutive dots", [name |-> name])
    ELSE NoError

\* validateBucketName: the error it throws, NoError when it returns
validateBucketName(name) ==
    IF name = <<>> THEN InvalidBucketName("Bucket name is required", <<>>)
    ELSE IF Len(name) < 3 \/ Len(name) > 63
    THEN InvalidBucketName("Bucket name must be between 3 and 63 characters", [name |-> name])
    ELSE IF ~MatchesName(name)
    THEN InvalidBucketName("Bucket name must start and end with a letter or number",
                           [name |-> name])
    ELSE IF HasConsecutiveDots(name)
    THEN InvalidBucketName("Bucket name cannot contain consecutive dots", [name |-> name])
    ELSE NoError

\* the names a caller passes: every name of up to MaxNameLen characters over
\* a small alphabet, and names of 63 and 64 characters
Alphabet == {"a", "0", "A", ".", "-"}
ShortNames == UNION {[1..n -> Alphabet] : n \in 0..MaxNameLen}
LongNames ==
    {<<x>> \o [i \in 1..n |-> "a"] \o <<y>> : x \in Alphabet, y \in Alphabet, n \in {61, 62}}
Names == ShortNames \cup LongNames

InitValidation ==
    /\ uploads = <<>>
    /\ inflight = EmptyBag
    /\ last = Idle
    /\ issued = {}
    /\ finished = <<>>
    /\ env = NoEnv
    /\ client = NoClient
    /\ objects = <<>>
    /\ caller \in {[NoCaller EXCEPT !.arg = name] : name \in Names}

\* a synchronous call of a function that returns or throws
Returned(op, thrown) ==
    [Idle EXCEPT !.op = op, !.pc = IF thrown = NoError THEN "resolved" ELSE "rejected",
                 !.error = thrown]

\* validateBucketName(name) is called
callValidateBucketName ==
    /\ last.pc = "idle"
    /\ last' = Returned("validateBucketName", validateBucketName(caller.arg))
    /\ UNCHANGED <<uploads, inflight, issued, finished, env, client, objects, caller>>

NextValidation ==
    \/ callValidateBucketName

SpecValidation == InitValidation /\ [][NextValidation]_vars

\* the longest object key validateObjectKey lets through
MaxKeyLength == 1024

\* variant: a key of exactly the limit is refused
validateObjectKeyBelow(key) ==
    IF key = <<>>
    THEN FastlyStorageError("Object key is required", "INVALID_OBJECT_KEY", NoStatus, <<>>, NoError)
    ELSE IF Len(key) >= MaxKeyLength
    THEN FastlyStorageError("Object key must not exceed 1024 characters", "INVALID_OBJECT_KEY",
                            NoStatus, [key |-> key, length |-> Len(key)], NoError)
    ELSE NoError

\* validateObjectKey: the error it throws, NoError when it returns
validateObjectKey(key) ==
    IF key = <<>>
    THEN FastlyStorageError("Object key is required", "INVALID_OBJECT_KEY", NoStatus, <<>>, NoError)
    ELSE IF Len(key) > MaxKeyLength
    THEN FastlyStorageError("Object key must not exceed 1024 characters", "INVALID_OBJECT_KEY",
                            NoStatus, [key |-> key, length |-> Len(key)], NoError)
    ELSE NoError

\* the keys a caller passes: every short key over the alphabet (a key has no
\* character rules), and keys around the length limit
InitKey ==
    /\ uploads = <<>>
    /\ inflight = EmptyBag
    /\ last = Idle
    /\ issued = {}
    /\ finished = <<>>
    /\ env = NoEnv
    /\ client = NoClient
    /\ objects = <<>>
    /\ caller \in {[NoCaller EXCEPT !.arg = key] :
                      key \in ShortNames \cup
                              {<<x>> \o [i \in 1..n |-> "a"] :
                                  x \in Alphabet \cup {"/", " "}, n \in 1022..1025}}

\* validateObjectKey(key) is called
callValidateObjectKey ==
    /\ last.pc = "idle"
    /\ last' = Returned("validateObjectKey", validateObjectKey(caller.arg))
    /\ UNCHANGED <<uploads, inflight, issued, finished, env, client, objects, caller>>

NextKey ==
    \/ callValidateObjectKey

SpecKey == InitKey /\ [][NextKey]_vars

\* ------------------------------------------ DefaultLogger (utils/logger)
\* if (process.env.DEBUG): a variable that is set and not empty
DebugOn == Has(env.DEBUG) /\ env.DEBUG[1] # NoStr

\* console.<stream>(`[LEVEL] ${message}`, meta ? JSON.stringify(meta) : '')
Line(stream, level, message, meta) ==
    [stream |-> stream, text |-> <<level, " ", message>>,
     meta |-> IF Has(meta) /\ meta[1].truthy THEN meta[1].json ELSE NoStr]

\* a logger call returns after writing the lines
Logged(level, lines) ==
    /\ last' = [Idle EXCEPT !.op = level, !.pc = "resolved", !.console = lines]
    /\ UNCHANGED <<uploads, inflight, issued, finished, env, client, objects, caller>>

\* DefaultLogger.debug
DefaultLoggerDebug ==
    Logged("debug", IF DebugOn
                    THEN <<Line("log", "[DEBUG]", caller.arg.message, caller.arg.meta)>>
                    ELSE <<>>)

\* DefaultLogger.info
DefaultLoggerInfo ==
    Logged("info", IF DebugOn
                   THEN <<Line("log", "[INFO]", caller.arg.message, caller.arg.meta)>>
                   ELSE <<>>)

\* variant: warn is written only when the flag is on, as debug and info are
DefaultLoggerWarnGated ==
    Logged("warn", IF DebugOn
                   THEN <<Line("warn", "[WARN]", caller.arg.message, caller.arg.meta)>>
                   ELSE <<>>)

\* DefaultLogger.warn
DefaultLoggerWarn ==
    Logged("warn", <<Line("warn", "[WARN]", caller.arg.message, caller.arg.meta)>>)

\* DefaultLogger.error
DefaultLoggerError ==
    Logged("error", <<Line("error", "[ERROR]", caller.arg.message, caller.arg.meta)>>)

InitLogger ==
    /\ uploads = <<>>
    /\ inflight = EmptyBag
    /\ last = Idle
    /\ issued = {}
    /\ finished = <<>>
    \* process.env.DEBUG: unset, set to the empty string, set
    /\ env \in {[DEBUG |-> d] @@ NoEnv : d \in {Unset, <<"">>, <<"1">>, <<"fastly:*">>}}
    /\ client = NoClient
    /\ objects = <<>>
    \* meta: nothing, an object, and a defined value that is falsy (0), each
    \* with the text JSON.stringify gives
    /\ caller \in {[NoCaller EXCEPT !.arg = [message |-> m, meta |-> meta]] :
                      m \in {"Uploading part", "Failed to upload part"},
                      meta \in {Unset,
                                <<[value |-> "object", truthy |-> TRUE,
                                   json |-> "{\"bucket\":\"b1\"}"]>>,
                                <<[value |-> "zero", truthy |-> FALSE, json |-> "0"]>>}}

NextLogger ==
    \/ DefaultLoggerDebug
    \/ DefaultLoggerInfo
    \/ DefaultLoggerWarn
    \/ DefaultLoggerError

SpecLogger == InitLogger /\ [][NextLogger]_vars

\* ------------------------------------- FastlyStorageError (errors module)
\* the values fromS3Error is handed: service errors (with $metadata), network
\* errors (without), a thrown value with no name, and FastlyStorageErrors
ServiceErrors ==
    {NotFoundError, InternalError,
     [name |-> "NoSuchKey", message |-> "no key", httpStatusCode |-> 404, requestId |-> "req-123"],
     [name |-> "SlowDown", message |-> "slow down", httpStatusCode |-> 503, requestId |-> "req-7"],
     [name |-> "BadRequest", message |-> NoStr, httpStatusCode |-> 400, requestId |-> "req-8"]}
NetworkErrors ==
    {TimeoutError, [name |-> "ECONNRESET", message |-> "socket hang up"], [name |-> NoStr]}
\* the errors a program constructs with new FastlyStorageError(message, code, {statusCode})
StatusCodes == {NoStatus, 400, 404, 408, 429, 500, 503}
ConstructedErrors ==
    {FastlyStorageError("failed", code, status, <<>>, NoError) :
        code \in {"ECONNRESET", "ETIMEDOUT", "BAD_REQUEST"}, status \in StatusCodes}
\* the context a caller hands to fromS3Error
Contexts ==
    {<<>>, [bucket |-> "test-bucket"],
     [bucket |-> "b1", key |-> "k1", operation |-> "getObject"],
     [bucket |-> "b1", requestId |-> "mine"]}

InitError ==
    /\ uploads = <<>>
    /\ inflight = EmptyBag
    /\ last = Idle
    /\ issued = {}
    /\ finished = <<>>
    /\ env = NoEnv
    /\ client = NoClient
    /\ objects = <<>>
    /\ caller \in {[NoCaller EXCEPT !.arg = [error |-> e, context |-> cx]] :
                      e \in ServiceErrors \cup NetworkErrors \cup ConstructedErrors,
                      cx \in Contexts}

\* FastlyStorageError.fromS3Error(error, context) is called
callFromS3Error ==
    /\ last.pc = "idle"
    /\ last' = [Idle EXCEPT !.op = "fromS3Error", !.pc = "resolved",
                            !.result = [NoResult EXCEPT
                                !.error = fromS3Error(caller.arg.error, caller.arg.context)]]
    /\ UNCHANGED <<uploads, inflight, issued, finished, env, client, objects, caller>>

\* error.isRetryable() is called on a FastlyStorageError: the one the program
\* constructed, or the one fromS3Error returned
callIsRetryable ==
    /\ \/ last.pc = "idle" /\ caller.arg.error.name = "FastlyStorageError"
       \/ last.op = "fromS3Error"
    /\ LET error == IF last.op = "fromS3Error" THEN last.result.error ELSE caller.arg.error
       IN  last' = [Idle EXCEPT !.op = "isRetryable", !.pc = "resolved",
                                !.result = [NoResult EXCEPT !.error = error,
                                                            !.retryable = isRetryable(error)]]
    /\ UNCHANGED <<uploads, inflight, issued, finished, env, client, objects, caller>>

NextError ==
    \/ callFromS3Error
    \/ callIsRetryable

SpecError == InitError /\ [][NextError]_vars

\* ------------------------------------------------------- specifications
\* the configurations and environments a caller may construct a client from
Configs ==
    [endpoint : {Unset, <<"">>, <<"https://x">>, <<"not a url">>},
     accessKeyId : {Unset, <<"">>, <<"k">>},
     secretAccessKey : {Unset, <<"">>, <<"s">>},
     region : {Unset, <<"">>, <<"us-west-1">>},
     maxRetries : {Unset, <<0 - 1>>, <<0>>},
     timeout : {Unset, <<0>>, <<1000>>},
     logger : {Unset},
     retryPolicy : {Unset, <<CustomRetryPolicy>>},
     forcePathStyle : {Unset, <<FALSE>>}]
Envs ==
    [FASTLY_ENDPOINT : {Unset, <<"https://env">>},
     FASTLY_ACCESS_KEY_ID : {Unset, <<"ek">>},
     FASTLY_SECRET_ACCESS_KEY : {Unset, <<"es">>},
     FASTLY_REGION : {Unset, <<"">>, <<"eu-env-1">>}]

InitConfig ==
    /\ uploads = <<>>
    /\ inflight = EmptyBag
    /\ last = Idle
    /\ issued = {}
    /\ finished = <<>>
    /\ env \in Envs
    /\ client = NoClient
    /\ objects = <<>>
    /\ caller = NoCaller

\* new FastlyStorageClient(config)
constructor(config) ==
    /\ client.state = "none"
    /\ client' = Construct(config, env)
    /\ UNCHANGED <<uploads, inflight, last, issued, finished, env, objects, caller>>

\* client.destroy()
destroy ==
    /\ client.state = "constructed"
    /\ client' = [client EXCEPT !.state = "destroyed"]
    /\ UNCHANGED <<uploads, inflight, last, issued, finished, env, objects, caller>>

NextConfig ==
    \/ \E config \in Configs : constructor(config)
    \/ destroy

SpecConfig == InitConfig /\ [][NextConfig]_vars

\* the whole client, used by a caller that awaits each call before the next
\* (a few of the answers to a listing and to a get are enough here)
NextAll ==
    \/ \E n \in CreateNames : Quiet /\ createBucket(n)
    \/ \E c \in InFlight, r \in VoidResponses : createBucketSettle(c, r)
    \/ \E n \in CreateNames : Quiet /\ deleteBucket(n)
    \/ \E c \in InFlight, r \in VoidResponses : deleteBucketSettle(c, r)
    \/ Quiet /\ listBuckets
    \/ \E c \in InFlight, r \in ListResponses : listBucketsSettle(c, r)
    \/ \E n \in BucketNames : Quiet /\ getBucketInfo(n)
    \/ \E c \in InFlight, r \in HeadResponses : getBucketInfoSettle(c, r)
    \/ \E c \in InFlight, r \in ListResponses : getBucketInfoListed(c, r)
    \/ \E t \in Targets, o \in UploadOptions : Quiet /\ uploadObject(t[1], t[2], <<7>>, o)
    \/ \E c \in InFlight, r \in PutResponses : uploadObjectSettle(c, r) /\ UNCHANGED objects
    \/ \E c \in InFlight : controllerAbort(c)
    \/ \E t \in Targets : Quiet /\ getObject(t[1], t[2])
    \/ \E c \in InFlight, r \in GetResponses :
          /\ r.ok => (r.ETag = "e1" /\ (~r.Body.present \/ Len(r.Body.chunks) = 1))
          /\ getObjectSettle(c, r)
    \/ \E c \in InFlight : getObjectStreamed(c)
    \/ \E t \in Targets : Quiet /\ getObjectStream(t[1], t[2])
    \/ \E c \in InFlight, r \in GetResponses :
          /\ r.ok => (r.ETag = "e1" /\ (~r.Body.present \/ Len(r.Body.chunks) = 1))
          /\ getObjectStreamSettle(c, r)
    \/ \E t \in Targets : Quiet /\ deleteObject(t[1], t[2])
    \/ \E c \in InFlight, r \in PutResponses : deleteObjectSettle(c, r)
    \/ \E s \in Targets, d \in Targets : Quiet /\ s # d /\ copyObject(s[1], s[2], d[1], d[2])
    \/ \E c \in InFlight, r \in PutResponses : copyObjectSettle(c, r)
    \/ \E t \in Targets : Quiet /\ headObject(t[1], t[2])
    \/ \E c \in InFlight, r \in PutResponses : headObjectSettle(c, r)
    \/ \E t \in Targets :
          Quiet /\ listObjects(t[1], [maxKeys |-> <<1>>, continuationToken |-> NoStr])
    \/ \E c \in InFlight,
          r \in ErrorResponses(S3Errors) \cup {Page(<<>>, FALSE, NoStr), Page(<<"k1">>, TRUE, "k1")} :
          listObjectsSettle(c, r)
    \/ \E t \in Targets : Quiet /\ createMultipartUpload(t[1], t[2])
    \/ \E c \in InFlight, r \in CreateResponses : createMultipartUploadSettle(c, r)
    \/ \E id \in UploadIds, p \in PartInputs : Quiet /\ uploadPart(id, p[1], p[2])
    \/ \E c \in InFlight, r \in PartResponses : uploadPartSettle(c, r)
    \/ \E id \in UploadIds, parts \in PartLists : Quiet /\ completeMultipartUpload(id, parts)
    \/ \E c \in InFlight, r \in DoneResponses : completeMultipartUploadSettle(c, r)
    \/ \E id \in UploadIds : Quiet /\ abortMultipartUpload(id)
    \/ \E c \in InFlight, r \in DoneResponses : abortMultipartUploadSettle(c, r)
    \/ \E t \in Targets : Quiet /\ getPresignedDownloadUrl(t[1], t[2], 3600)
    \/ \E c \in InFlight : \E r \in SignResponses(c) : getPresignedDownloadUrlSettle(c, r)
    \/ \E t \in Targets : Quiet /\ getPresignedUploadUrl(t[1], t[2], 1800)
    \/ \E c \in InFlight : \E r \in SignResponses(c) : getPresignedUploadUrlSettle(c, r)

SpecAll == Init /\ [][NextAll]_vars

\* the whole client until and after it is destroyed
NextShared ==
    \/ NextAll
    \/ destroy

SpecShared == Init /\ [][NextShared]_vars

Next ==
    \/ \E t \in Targets : createMultipartUpload(t[1], t[2])
    \/ \E c \in InFlight, r \in CreateResponses : createMultipartUploadSettle(c, r)
    \/ \E id \in UploadIds, p \in PartInputs : uploadPart(id, p[1], p[2])
    \/ \E c \in InFlight, r \in PartResponses : uploadPartSettle(c, r)
    \/ \E id \in UploadIds, parts \in PartLists : completeMultipartUpload(id, parts)
    \/ \E c \in InFlight, r \in DoneResponses : completeMultipartUploadSettle(c, r)
    \/ \E id \in UploadIds : abortMultipartUpload(id)
    \/ \E c \in InFlight, r \in DoneResponses : abortMultipartUploadSettle(c, r)

Spec == Init /\ [][Next]_vars

\* the caller of createMultipartUpload keeps the id it received with the
\* bucket and key it passed:
\*   const { uploadId } = await client.createMultipartUpload(bucket, key)
note ==
    /\ last.op = "createMultipartUpload"
    /\ last.pc = "resolved"
    /\ last.result.uploadId \notin DOMAIN caller.created
    /\ caller' = [caller EXCEPT !.created =
                     MapSet(@, last.result.uploadId, [bucket |-> last.bucket, key |-> last.key])]
    /\ UNCHANGED <<uploads, inflight, last, issued, finished, env, client, objects>>

\* multipart uploads by a caller that keeps track of what it created
NextSession ==
    \/ \E t \in Targets : createMultipartUpload(t[1], t[2])
    \/ \E c \in InFlight, r \in CreateResponses : createMultipartUploadSettle(c, r)
    \/ note
    \/ \E id \in UploadIds : uploadPart(id, 1, <<7>>)
    \/ \E c \in InFlight, r \in PartResponses : uploadPartSettle(c, r)
    \/ \E id \in UploadIds : completeMultipartUpload(id, <<>>)
    \/ \E c \in InFlight, r \in DoneResponses : completeMultipartUploadSettle(c, r)
    \/ \E id \in UploadIds : abortMultipartUpload(id)
    \/ \E c \in InFlight, r \in DoneResponses : abortMultipartUploadSettle(c, r)

SpecSession == Init /\ [][NextSession]_vars

\* ================================================================ claims
Rejected(c, code) == c.pc = "rejected" /\ c.error.code = code
SessionOps == {"uploadPart", "completeMultipartUpload", "abortMultipartUpload"}

\* C1: uploadPart on an upload id that is not in the session map when the
\* call is made fails with UPLOAD_NOT_FOUND, whatever the part number and the
\* payload, and hands no command to the backend (so it never awaits).
C1_UntrackedUploadPart ==
    /\ (last.op = "uploadPart" /\ ~last.tracked)
          => (Rejected(last, "UPLOAD_NOT_FOUND") /\ last.sends = 0)
    /\ \A c \in InFlight : c.op = "uploadPart" => c.tracked

C1_Witness ==
    /\ last.op = "uploadPart" /\ ~last.tracked /\ last.pc = "rejected"
    /\ last.partNumber = 2 /\ last.data # <<>>

\* C2: once a complete or an abort has resolved for an upload id, every
\* uploadPart, complete or abort issued afterwards with that id fails with
\* UPLOAD_NOT_FOUND and sends nothing, whatever parts list the complete had.
C2_FinishedIdIsGone ==
    /\ (last.op \in SessionOps /\ last.late)
          => (Rejected(last, "UPLOAD_NOT_FOUND") /\ last.sends = 0)
    /\ \A c \in InFlight : c.op \in SessionOps => ~c.late

C2_Witness ==
    /\ last.op \in SessionOps /\ last.late /\ last.pc = "rejected"
    /\ finished[last.uploadId].op = "completeMultipartUpload"
    /\ finished[last.uploadId].parts = <<>>

\* C3: a session leaves the map only in the step in which a complete or an
\* abort for its id resolves; the step in which the backend call of a
\* complete or abort fails leaves the map as it is, so an id tracked before
\* that step stays tracked with the bucket and key the call captured; and a
\* call on a tracked id passes the check (it sends its command).
C3_Removed(id) ==
    /\ last'.op \in {"completeMultipartUpload", "abortMultipartUpload"}
    /\ last'.uploadId = id
    /\ last'.pc = "resolved" /\ last'.response.ok
    /\ inflight # inflight'

C3_FailedStep(c) ==
    /\ c.op \in {"completeMultipartUpload", "abortMultipartUpload"}
    /\ inflight' = inflight (-) SetToBag({c})
    /\ last'.pc = "rejected" /\ last'.op = c.op /\ last'.uploadId = c.uploadId

C3_RemovalOnlyOnSuccess ==
    /\ [][ /\ \A id \in DOMAIN uploads : id \notin DOMAIN uploads' => C3_Removed(id)
           /\ \A c \in InFlight : C3_FailedStep(c) =>
                 /\ uploads' = uploads
                 /\ c.uploadId \in DOMAIN uploads =>
                       /\ uploads'[c.uploadId].bucket = c.bucket
                       /\ uploads'[c.uploadId].key = c.key ]_vars
    /\ [](last.op \in SessionOps /\ last.tracked => last.sends = 1)

C3_Witness ==
    /\ last.op = "completeMultipartUpload" /\ last.pc = "rejected" /\ last.sends = 1
    /\ last.uploadId \in DOMAIN uploads
    /\ uploads[last.uploadId].bucket = last.bucket
    /\ uploads[last.uploadId].key = last.key

\* C4: when the backend's answer to createMultipartUpload carries no upload
\* id, the caller sees an error with code NO_UPLOAD_ID and no session is
\* registered.
C4_NoUploadIdCode ==
    (last.op = "createMultipartUpload" /\ last.response.ok /\ last.response.UploadId = NoId)
        => (Rejected(last, "NO_UPLOAD_ID") /\ last.result.uploadId = NoId)

\* C5: when uploadPart is called for a tracked id and the backend's answer
\* carries no ETag, the caller sees an error with code NO_ETAG and the
\* session stays tracked.
C5_NoEtagCode ==
    (last.op = "uploadPart" /\ last.response.ok /\ last.response.ETag = NoStr)
        => Rejected(last, "NO_ETAG")

\* C6: when the backend answers a get without a payload, getObject and
\* getObjectStream fail with an error whose code is EMPTY_BODY.
C6_EmptyBodyCode ==
    (last.op \in {"getObject", "getObjectStream"} /\ last.response.ok
        /\ ~last.response.Body.present)
        => Rejected(last, "EMPTY_BODY")

\* C7: when the existence check of getBucketInfo succeeds and the name is
\* absent from the bucket list that follows, the caller sees an error with
\* code NOT_FOUND and status 404.
C7_MissingBucketIs404 ==
    (last.op = "getBucketInfo" /\ last.sends = 2 /\ last.response.ok
        /\ Find(last.response.Buckets, last.bucket) = 0)
        => (Rejected(last, "NOT_FOUND") /\ last.error.statusCode = 404)

Constructed == client.state \in {"constructed", "destroyed"}

\* C8: whenever the configuration (the resolved one, after the environment
\* fallback) lacks endpoint, access key id or secret access key, construction
\* fails with INVALID_CONFIG and neither the S3 client nor any operation
\* group is created.
C8_MissingCredentials ==
    (client.state # "none" /\ (\/ client.config.endpoint = NoStr
                               \/ client.config.accessKeyId = NoStr
                               \/ client.config.secretAccessKey = NoStr))
        => /\ client.state = "failed"
           /\ client.error.code = "INVALID_CONFIG"
           /\ client.s3Client = NoS3Client
           /\ client.groups = {}

C8_Witness ==
    /\ client.state = "failed"
    /\ client.config.endpoint = "https://x" /\ client.config.accessKeyId = "k"
    /\ client.config.secretAccessKey = NoStr
    /\ client.input.secretAccessKey = Unset

\* C9: construction fails with INVALID_CONFIG exactly when the resolved
\* configuration has an empty endpoint, access key id or secret, an endpoint
\* that is not a valid URL, a negative maxRetries, or a timeout that is not
\* positive; every other configuration, maxRetries 0 included, constructs.
C9_Invalid(config) ==
    \/ config.endpoint = NoStr \/ config.accessKeyId = NoStr \/ config.secretAccessKey = NoStr
    \/ config.endpoint \notin ParsableUrls
    \/ config.maxRetries < 0
    \/ ~(config.timeout > 0)

C9_FailsExactlyWhenInvalid ==
    client.state # "none" =>
        /\ C9_Invalid(client.config) =>
              (client.state = "failed" /\ client.error.code = "INVALID_CONFIG")
        /\ ~C9_Invalid(client.config) =>
              (Constructed /\ client.error = NoError /\ client.groups = OperationGroups)

C9_Witness ==
    /\ client.state = "constructed" /\ client.input.maxRetries = <<0>>
    /\ client.config.maxRetries = 0 /\ client.s3Client.maxAttempts = 1

\* C10 as stated: every field of the resolved configuration is the explicit
\* value whenever the caller supplied one.
C10_ExplicitNeverReplaced ==
    client.state # "none" =>
        \A f \in {"endpoint", "accessKeyId", "secretAccessKey", "region",
                  "maxRetries", "timeout", "forcePathStyle", "retryPolicy"} :
            Has(client.input[f]) => client.config[f] = client.input[f][1]

C10_EnvOf(f) ==
    IF f = "endpoint" THEN env.FASTLY_ENDPOINT
    ELSE IF f = "accessKeyId" THEN env.FASTLY_ACCESS_KEY_ID
    ELSE IF f = "secretAccessKey" THEN env.FASTLY_SECRET_ACCESS_KEY
    ELSE env.FASTLY_REGION

C10_Given(o) == Has(o) /\ o[1] # NoStr

\* C10 amended: a string field (endpoint, accessKeyId, secretAccessKey,
\* region) is the explicit value when the caller supplied a non-empty one,
\* otherwise the FASTLY_* variable when that is set and non-empty, otherwise
\* the default ('' for the three required fields, us-east-1 for region);
\* maxRetries, timeout, forcePathStyle and retryPolicy are the supplied value
\* whenever one was supplied (0 and false included), otherwise 3, 30000,
\* true and {3, 1000, 2}.
C10_Resolution ==
    client.state # "none" =>
        /\ \A f \in {"endpoint", "accessKeyId", "secretAccessKey", "region"} :
              /\ C10_Given(client.input[f]) => client.config[f] = client.input[f][1]
              /\ (~C10_Given(client.input[f]) /\ C10_Given(C10_EnvOf(f)))
                    => client.config[f] = C10_EnvOf(f)[1]
              /\ (~C10_Given(client.input[f]) /\ ~C10_Given(C10_EnvOf(f)))
                    => client.config[f] = (IF f = "region" THEN "us-east-1" ELSE "")
        /\ \A f \in {"maxRetries", "timeout", "forcePathStyle", "retryPolicy"} :
              Has(client.input[f]) => client.config[f] = client.input[f][1]
        /\ ~Has(client.input.maxRetries) => client.config.maxRetries = 3
        /\ ~Has(client.input.timeout) => client.config.timeout = 30000
        /\ ~Has(client.input.forcePathStyle) => client.config.forcePathStyle = TRUE
        /\ ~Has(client.input.retryPolicy) =>
              client.config.retryPolicy =
                  [maxRetries |-> 3, retryDelay |-> 1000, retryDelayMultiplier |-> 2]

C10_Witness ==
    /\ client.state = "constructed"
    /\ client.input.endpoint = <<"https://x">> /\ env.FASTLY_ENDPOINT = <<"https://env">>
    /\ client.config.endpoint = "https://x"
    /\ client.input.region = <<"">> /\ client.config.region = "eu-env-1"
    /\ client.input.maxRetries = <<0>> /\ client.config.maxRetries = 0

\* C11: validateBucketName returns exactly for the names of 3 to 63
\* characters that start and end with a lowercase letter or a digit, contain
\* only lowercase letters, digits, dots and hyphens, and have no two dots in
\* a row; for every other name it throws INVALID_BUCKET_NAME.
C11_ValidName(name) ==
    /\ Len(name) \in 3..63
    /\ \A i \in 1..Len(name) : name[i] \in LowerCase \cup Digits \cup {".", "-"}
    /\ name[1] \notin {".", "-"}
    /\ name[Len(name)] \notin {".", "-"}
    /\ \A i \in 1..Len(name), j \in 1..Len(name) :
          j = i + 1 => ~(name[i] = "." /\ name[j] = ".")

C11_PassesExactlyValidNames ==
    last.op = "validateBucketName" =>
        IF C11_ValidName(caller.arg) THEN last.pc = "resolved"
        ELSE Rejected(last, "INVALID_BUCKET_NAME")

C11_Witness ==
    /\ last.op = "validateBucketName"
    /\ caller.arg = <<"a", ".", ".", "0">>
    /\ Rejected(last, "INVALID_BUCKET_NAME")
    /\ last.error.message = "Bucket name cannot contain consecutive dots"

\* C12: createBucket with a name that fails the bucket-name rules (such as
\* "ab") fails with INVALID_BUCKET_NAME, and no request is sent for it.
C12_InvalidNameNotSent ==
    /\ \A c \in InFlight :
          c.op = "createBucket" => validateBucketName(Characters[c.bucket]) = NoError
    /\ (last.op = "createBucket" /\ validateBucketName(Characters[last.bucket]) # NoError)
          => (Rejected(last, "INVALID_BUCKET_NAME") /\ last.sends = 0)

\* C13: isRetryable() is true when the status is 5xx, 429 or 408, or when
\* the code is ECONNRESET or ETIMEDOUT, and false in every other case.
C13_RetryableExactly ==
    last.op = "isRetryable" =>
        LET error == last.result.error
        IN  last.result.retryable
                <=> \/ error.statusCode \in 500..599
                    \/ error.statusCode \in {429, 408}
                    \/ error.code \in {"ECONNRESET", "ETIMEDOUT"}

\* C14 as stated: the error fromS3Error returns has the backend's HTTP
\* status, the code NOT_FOUND for status 404 and otherwise the error's name
\* (UNKNOWN_ERROR without one), every field of the caller's context, and the
\* original error as its cause.
C14_Status(e) == IF "httpStatusCode" \in DOMAIN e THEN e.httpStatusCode ELSE NoStatus
C14_Code(e) ==
    IF C14_Status(e) = 404 THEN "NOT_FOUND"
    ELSE IF e.name = NoStr THEN "UNKNOWN_ERROR" ELSE e.name
C14_Keeps(fields) ==
    \A f \in fields :
        /\ f \in DOMAIN last.result.error.context
        /\ last.result.error.context[f] = caller.arg.context[f]

C14_EveryContextField ==
    last.op = "fromS3Error" =>
        /\ last.result.error.name = "FastlyStorageError"
        /\ last.result.error.statusCode = C14_Status(caller.arg.error)
        /\ last.result.error.code = C14_Code(caller.arg.error)
        /\ C14_Keeps(DOMAIN caller.arg.context)
        /\ last.result.error.cause = caller.arg.error

\* C14 as amended: the same, except that the context's requestId is always
\* the backend's request id (absent when the error carries none), also when
\* the caller's context has a requestId field of its own.
C14_Normalized ==
    last.op = "fromS3Error" =>
        /\ last.result.error.name = "FastlyStorageError"
        /\ last.result.error.statusCode = C14_Status(caller.arg.error)
        /\ last.result.error.code = C14_Code(caller.arg.error)
        /\ C14_Keeps(DOMAIN caller.arg.context \ {"requestId"})
        /\ last.result.error.context["requestId"] =
              IF "requestId" \in DOMAIN caller.arg.error
              THEN caller.arg.error.requestId ELSE NoStr
        /\ last.result.error.cause = caller.arg.error

C14_Witness ==
    /\ last.op = "fromS3Error"
    /\ caller.arg.error.name = "NoSuchKey"
    /\ caller.arg.context = [bucket |-> "b1", requestId |-> "mine"]
    /\ last.result.error.code = "NOT_FOUND"
    /\ last.result.error.statusCode = 404
    /\ last.result.error.context = [bucket |-> "b1", requestId |-> "req-123"]

\* C16: when the abort signal given in the upload options is triggered while
\* the request is in flight, the operation fails with a cancellation error
\* (and no multipart session is removed).
C16_AbortCancels ==
    (last.op = "uploadObject" /\ last.signal = "aborted")
        => /\ last.pc = "rejected"
           /\ last.error.cause.name = "AbortError"
           /\ uploads = <<>>

\* C17: against a backend that stores what it is sent, a getObject that
\* follows an uploadObject of the same bucket and key returns the uploaded
\* bytes as its body and the ETag that uploadObject returned.
C17_RoundTrip ==
    [][(/\ last.op = "uploadObject" /\ last.pc = "resolved"
        /\ last'.op = "getObject" /\ last'.pc = "resolved"
        /\ last'.bucket = last.bucket /\ last'.key = last.key)
       => (/\ last'.result.body = last.data
           /\ last'.result.etag = last.result.etag)]_vars

C17_Witness ==
    /\ last.op = "getObject" /\ last.pc = "resolved"
    /\ <<last.bucket, last.key>> \in DOMAIN objects
    /\ last.response.Body.chunks = <<(<<1>>), <<2>>>>
    /\ last.result.body = <<1, 2>>
    /\ last.result.etag = "e2"

\* C18: a listObjects whose maxKeys is smaller than the number of objects in
\* the bucket returns isTruncated true and a non-empty continuation token; a
\* caller that keeps feeding the token back eventually receives a page with
\* isTruncated false, and has then seen every key of the bucket exactly once.
C18_Truncated ==
    (/\ last.op = "listObjects" /\ last.pc = "resolved"
     /\ last.continuationToken = NoStr
     /\ Has(last.maxKeys) /\ last.maxKeys[1] < Len(BucketKeys(last.bucket)))
        => (last.result.isTruncated /\ last.result.nextContinuationToken # NoStr)
C18_LastPage ==
    last.op = "listObjects" /\ last.pc = "resolved" /\ ~last.result.isTruncated
C18_SeenAll ==
    C18_LastPage =>
        last.seen \o [i \in 1..Len(last.result.contents) |-> last.result.contents[i].key]
            = BucketKeys(last.bucket)

C18_Pagination == [](C18_Truncated /\ C18_SeenAll) /\ <>C18_LastPage

C18_Witness ==
    /\ C18_LastPage
    /\ last.maxKeys = <<1>>
    /\ last.continuationToken = "k2"
    /\ last.seen = <<"k1", "k2">>
    /\ last.result.contents = <<[key |-> "k4"]>>

\* C20: two presigned-URL calls of the same kind with the same bucket, key
\* and expiry, on the same client and signed at the same time, return the
\* same URL, whatever calls were made in between.
C20_SameInputs ==
    /\ last.op \in PresignOps /\ last.pc = "resolved"
    /\ Has(caller.remembered)
    /\ caller.remembered[1].op = last.op
    /\ caller.remembered[1].bucket = last.bucket
    /\ caller.remembered[1].key = last.key
    /\ caller.remembered[1].expiresIn = last.expiresIn
    /\ caller.remembered[1].url.date = last.result.url.date

C20_Deterministic == C20_SameInputs => caller.remembered[1].url = last.result.url

C20_Witness ==
    /\ C20_SameInputs
    /\ last.again
    /\ last.op = "getPresignedUploadUrl"
    /\ last.result.url.method = "PUT"
    /\ last.result.url.expires = 1800

\* C19 as stated: under any interleaving, the client reports success for at
\* most one complete or abort per session (a success is never reported for an
\* id for which one was reported before), and the map holds at most one
\* session per id.
C19_Ends == {"completeMultipartUpload", "abortMultipartUpload"}
C19_OneSuccessPerSession ==
    [][(/\ BagCardinality(inflight') < BagCardinality(inflight)
        /\ last'.op \in C19_Ends /\ last'.pc = "resolved")
       => (/\ last'.uploadId \notin DOMAIN finished
           /\ \A id \in DOMAIN uploads' : uploads'[id].uploadId = id)]_vars

\* C19 as amended: success is reported for a complete or an abort only when
\* the call was issued while the session was tracked and before any complete
\* or abort had resolved for the id; an id is issued, then tracked, then
\* finished, never tracked and finished at once, and the map holds one
\* session per id.
C19_SuccessOnlyForLive ==
    /\ (last.op \in C19_Ends /\ last.pc = "resolved") => (last.tracked /\ ~last.late)
    /\ \A c \in InFlight : c.op \in SessionOps => (c.tracked /\ ~c.late)
    /\ \A id \in DOMAIN uploads : uploads[id].uploadId = id
    /\ DOMAIN uploads \cup DOMAIN finished \subseteq issued
    /\ DOMAIN uploads \cap DOMAIN finished = {}

C19_Witness ==
    /\ last.op = "completeMultipartUpload" /\ last.pc = "resolved"
    /\ last.uploadId \in DOMAIN finished
    /\ \E c \in InFlight : c.op = "abortMultipartUpload" /\ c.uploadId = last.uploadId

\* C15: every failure a bucket, object, multipart or presigned-URL operation
\* hands to its caller is a FastlyStorageError; the error the backend, the
\* stream or the signer raised is never the value raised itself, it is the
\* cause the FastlyStorageError wraps.
C15_RawErrors == S3Errors \cup {StreamError, CredentialsError}
C15_Wraps(error, raw) ==
    \/ error.cause = raw
    \/ error.cause.name = "FastlyStorageError" /\ error.cause.cause = raw

C15_OnlyNormalized ==
    last.pc = "rejected" =>
        /\ last.error.name = "FastlyStorageError"
        /\ last.error \notin C15_RawErrors
        /\ (~last.response.ok /\ last.response.error # NoError)
              => C15_Wraps(last.error, last.response.error)
        /\ (last.response.ok /\ last.response.Body.present /\ ~last.response.Body.ends)
              => C15_Wraps(last.error, StreamError)

C15_Witness ==
    /\ last.op = "getBucketInfo" /\ last.pc = "rejected" /\ last.sends = 2
    /\ last.response.error = InternalError
    /\ last.error.name = "FastlyStorageError"
    /\ last.error.cause.name = "FastlyStorageError"
    /\ last.error.cause.cause = InternalError

\* C21: validateObjectKey throws INVALID_OBJECT_KEY exactly when the key is
\* empty or has more than 1024 characters; every key of 1 to 1024 characters
\* passes, whatever its characters.
C21_FailsExactlyOutOfRange ==
    last.op = "validateObjectKey" =>
        IF Len(caller.arg) \in 1..1024 THEN last.pc = "resolved" /\ last.error = NoError
        ELSE Rejected(last, "INVALID_OBJECT_KEY")

C21_Witness ==
    /\ last.op = "validateObjectKey"
    /\ Len(caller.arg) = 1024 /\ caller.arg[1] = " "
    /\ last.pc = "resolved"

\* C22: every request that uploadPart, completeMultipartUpload or
\* abortMultipartUpload hands to the backend for an upload id names the bucket
\* and the key that were passed to the createMultipartUpload call which
\* returned that id, and the id itself.
C22_Carries(c) ==
    (c.op \in SessionOps /\ c.sends > 0 /\ c.uploadId \in DOMAIN caller.created) =>
        /\ c.command.Bucket = caller.created[c.uploadId].bucket
        /\ c.command.Key = caller.created[c.uploadId].key
        /\ c.command.UploadId = c.uploadId

C22_CommandsCarryCreated ==
    /\ C22_Carries(last)
    /\ \A c \in InFlight : C22_Carries(c)

C22_Witness ==
    /\ DOMAIN caller.created = UploadIds
    /\ caller.created["u1"] # caller.created["u2"]
    /\ \E c \in InFlight : c.op = "uploadPart" /\ c.uploadId = "u1"
    /\ \E c \in InFlight : c.op = "completeMultipartUpload" /\ c.uploadId = "u2"

\* C23: the error getBucketInfo raises when one of its two backend calls
\* failed carries the backend's HTTP status, and the code NOT_FOUND for 404
\* and the backend error's name otherwise, whether the existence check or
\* the nested bucket listing failed; a 5xx failure is reported as retryable.
C23_OriginalStatus ==
    (last.op = "getBucketInfo" /\ last.pc = "rejected" /\ ~last.response.ok) =>
        /\ last.error.statusCode = C14_Status(last.response.error)
        /\ last.error.code = C14_Code(last.response.error)
        /\ C14_Status(last.response.error) >= 500 => isRetryable(last.error)

\* C24: an operation sends nothing after one of its backend calls or checks
\* has failed.  getBucketInfo hands the bucket-list request to the backend
\* only when the existence check has succeeded: a call that awaits the
\* listing holds the successful answer to its existence check, and a call
\* whose existence check failed is rejected with that one request sent.
C24_Stage(c) ==
    c.op = "getBucketInfo" =>
        \/ c.pc = "send" /\ c.sends = 1 /\ c.command.command = "HeadBucket"
        \/ c.pc = "list" /\ c.sends = 2 /\ c.command.command = "ListBuckets"
              /\ c.response.ok

C24_NoCallAfterFailure ==
    /\ \A c \in InFlight : C24_Stage(c)
    /\ (last.op = "getBucketInfo" /\ last.command.command = "HeadBucket")
          => (last.pc = "rejected" /\ ~last.response.ok /\ last.sends = 1)
    /\ last.pc = "rejected"
          => last.sends = (IF last.command.command = "ListBuckets" /\ last.op = "getBucketInfo"
                           THEN 2 ELSE 1)

C24_Witness ==
    /\ last.op = "getBucketInfo" /\ last.pc = "rejected"
    /\ last.response.error = NotFoundError
    /\ last.sends = 1 /\ last.command.command = "HeadBucket"
    /\ last.error.code = "NOT_FOUND"

\* C25: the wrapper never retries.  A call has handed one request to the
\* underlying client while it awaits it (two once getBucketInfo awaits its
\* listing, none while a URL is being signed); a settled call has sent one
\* request (two for a getBucketInfo whose existence check succeeded, none
\* for a multipart call on an untracked id and for a presigned URL); a
\* request the backend rejected ends the call with an error; and the retry
\* count only reaches the underlying client, as maxAttempts = maxRetries + 1.
C25_Sent(c) ==
    IF c.op \in PresignOps THEN 0
    ELSE IF c.op \in SessionOps /\ ~c.tracked THEN 0
    ELSE IF c.op = "getBucketInfo" /\ c.command.command = "ListBuckets" THEN 2
    ELSE 1

C25_NeverRetries ==
    /\ \A c \in InFlight :
          /\ c.sends = C25_Sent(c)
          /\ c.pc = "list" <=> c.sends = 2
    /\ last.pc \in {"resolved", "rejected"} =>
          /\ last.sends = C25_Sent(last)
          /\ (last.op = "getBucketInfo" /\ last.pc = "resolved") => last.sends = 2
          /\ (last.op = "getBucketInfo" /\ last.sends = 1) => ~last.response.ok
          /\ (~last.response.ok /\ last.response.error # NoError) => last.pc = "rejected"
    /\ client.s3Client.maxAttempts = client.config.maxRetries + 1

C25_Witness ==
    /\ last.op = "deleteObject" /\ last.pc = "rejected"
    /\ last.response.error = InternalError
    /\ isRetryable(last.error)
    /\ last.sends = 1

\* C26: whenever an operation of any group (bucket, object, multipart,
\* presigned URL) fails, the group has emitted an error-level log entry for
\* it by the time the error reaches the caller.
C26_FailureIsLogged ==
    last.pc = "rejected" => Len(last.logged) >= 1

\* C27 as stated: with the DEBUG variable unset none of the four levels of
\* the default logger writes anything; with it set each call writes one line.
C27_Levels == {"debug", "info", "warn", "error"}
C27_NoOpUnlessDebug ==
    last.op \in C27_Levels =>
        IF Has(env.DEBUG) THEN Len(last.console) = 1 ELSE last.console = <<>>

\* C27 as amended: debug and info write nothing when DEBUG is unset or empty
\* and one line when it is set to a non-empty value; warn and error write
\* one line on every call, whatever the flag.
C27_DebugAndInfoGated ==
    last.op \in C27_Levels =>
        IF last.op \in {"debug", "info"} /\ (~Has(env.DEBUG) \/ env.DEBUG = <<"">>)
        THEN last.console = <<>>
        ELSE Len(last.console) = 1

C27_Witness ==
    /\ last.op = "error"
    /\ env.DEBUG = Unset
    /\ last.console = <<[stream |-> "error",
                         text |-> <<"[ERROR]", " ", "Failed to upload part">>,
                         meta |-> "{\"bucket\":\"b1\"}"]>>

\* C28: in every reachable state the tracked upload ids are the ids that
\* successful createMultipartUpload calls returned, minus the ids for which a
\* complete or an abort has succeeded; and the session map changes only in
\* the step in which a create, a complete or an abort resolves (a create adds
\* the id it returns, a complete or abort removes its id): uploadPart, every
\* bucket, object and presigned-URL operation, destroy and every failed call
\* leave it as it is.
C28_Resolves(ops) ==
    /\ BagCardinality(inflight') < BagCardinality(inflight)
    /\ last'.op \in ops /\ last'.pc = "resolved"

C28_TrackedIsCreatedMinusFinished ==
    /\ [](DOMAIN uploads = issued \ DOMAIN finished)
    /\ [][uploads' # uploads =>
            \/ /\ C28_Resolves({"createMultipartUpload"})
               /\ DOMAIN uploads' = DOMAIN uploads \cup {last'.result.uploadId}
            \/ /\ C28_Resolves({"completeMultipartUpload", "abortMultipartUpload"})
               /\ DOMAIN uploads' = DOMAIN uploads \ {last'.uploadId}]_vars

C28_Witness ==
    /\ DOMAIN uploads = {"u2"} /\ DOMAIN finished = {"u1"}
    /\ last.op = "uploadPart" /\ last.uploadId = "u2" /\ last.pc = "rejected"
    /\ ~last.response.ok /\ last.sends = 1
    /\ client.state = "destroyed"

\* C29: the tracked check of complete and abort comes before the await of
\* the backend call and the removal after it.  Every complete or abort in
\* flight has passed the check and sent its request, also when another call
\* has removed the session since; when its answer arrives it resolves
\* exactly when the backend accepted it, whether or not the session is still
\* tracked; and a complete or abort that fails leaves the map as it is, so
\* a session removed by the other call is not added again.
C29_Settles ==
    /\ BagCardinality(inflight') < BagCardinality(inflight)
    /\ last'.op \in C19_Ends

C29_CheckBeforeAwait ==
    /\ [](\A c \in InFlight : c.op \in C19_Ends =>
              /\ c.tracked /\ c.sends = 1
              /\ c.command.UploadId = c.uploadId)
    /\ [][C29_Settles =>
              /\ last'.pc = "resolved" <=> last'.response.ok
              /\ last'.pc = "rejected" => uploads' = uploads]_vars

C29_Witness ==
    /\ last.op = "abortMultipartUpload" /\ last.pc = "rejected"
    /\ last.tracked /\ ~last.late /\ last.sends = 1
    /\ last.uploadId \in DOMAIN finished
    /\ finished[last.uploadId].op = "completeMultipartUpload"
    /\ last.uploadId \notin DOMAIN uploads

\* C30: an uploadPart that passed the tracked check is not cancelled or
\* failed when a complete or an abort removes the session while it is in
\* flight.  Its request names the bucket and key it captured at the check
\* (those the session was created with); the step that removes the session
\* leaves the call in flight as it was; and when the backend answers, the
\* call returns the backend's outcome (success with the ETag of the answer),
\* whether or not the id is still tracked.
C30_Captured(c) ==
    c.op = "uploadPart" =>
        /\ c.tracked /\ c.sends = 1
        /\ c.command.Bucket = c.bucket /\ c.command.Key = c.key
        /\ c.uploadId \in DOMAIN caller.created =>
              /\ c.bucket = caller.created[c.uploadId].bucket
              /\ c.key = caller.created[c.uploadId].key

C30_PartOutlivesSession ==
    /\ [](\A c \in InFlight : C30_Captured(c))
    /\ [][DOMAIN uploads' # DOMAIN uploads =>
             \A c \in InFlight :
                 (c.op = "uploadPart") => (CopiesIn(c, inflight') = CopiesIn(c, inflight))]_vars
    /\ [][(/\ BagCardinality(inflight') < BagCardinality(inflight)
           /\ last'.op = "uploadPart") =>
               /\ last'.pc = "resolved"
                     <=> (last'.response.ok /\ last'.response.ETag # NoStr)
               /\ last'.pc = "resolved" => last'.result.etag = last'.response.ETag]_vars

C30_Witness ==
    /\ last.op = "uploadPart" /\ last.pc = "resolved"
    /\ last.tracked /\ ~last.late
    /\ last.uploadId \notin DOMAIN uploads
    /\ last.uploadId \in DOMAIN finished
    /\ last.uploadId \in DOMAIN caller.created
    /\ last.command.Bucket = caller.created[last.uploadId].bucket
    /\ last.result.etag = "e1"

====
